---- MODULE Spec2Model ----
(***************************************************************************)
(* UK-Chemical inventory dashboard: the InventoryProvider (stock ledger,   *)
(* notification derivation) and the invoice form, as state machines.       *)
(*                                                                         *)
(* The repository holds three remote-backed iterations of the provider:    *)
(*   "remote"  src/context/InventoryContext.tsx lines 185-718              *)
(*   "strict"  src/context/InventoryContext.tsx lines 719-1459             *)
(*   "hybrid"  src/unnamed/part_006                                        *)
(* The variable `provider` says which one is mounted; it never changes.    *)
(*                                                                         *)
(* Every ledger operation is asynchronous: XCall is the synchronous prefix *)
(* up to the first await (role gate, snapshot of the closure's state,      *)
(* payload), DbOk / DbErr is the remote store handling the request, and    *)
(* XResume is the continuation after the await.                            *)
(***************************************************************************)
EXTENDS Integers, Sequences, FiniteSets, TLC

VARIABLES
  provider,         \* which iteration of InventoryProvider is mounted
  currentUser,      \* useState<User | null>
  now,              \* wall clock, in ticks (TicksPerDay ticks a day)
  products,         \* useState<Product[]>
  notifications,    \* useState<Notification[]>
  expiryThreshold,  \* useState<number>(30)
  suppliers,        \* useState<Supplier[]>
  invoices,         \* useState<Invoice[]>
  users,            \* useState<User[]>
  companyInfo,      \* useState<CompanyInfo>
  localStorage,     \* the 'ukchem_invoices' item of the browser's localStorage
  formItems,        \* Invoices page: useState<InvoiceItem[]>
  passed,           \* Invoices page: the argument of the addInvoice call handleSave awaits
  db,               \* the remote store: its tables and its id generator
  pending,          \* requests in flight, in the order they were issued
  rtEvents,         \* postgres_changes events not yet delivered
  nCalls,           \* operations invoked so far
  session,          \* the run of session resolution: isFetching, its identity, currentUserIdRef
  last              \* history: the last call prefix or continuation that ran

ledgerVars == <<products, notifications, expiryThreshold>>
adminVars == <<suppliers, invoices, users, companyInfo, localStorage>>
formVars == <<formItems, passed>>
fixedVars == <<provider, currentUser, now, session>>

vars == <<provider, currentUser, now, products, notifications, expiryThreshold,
          suppliers, invoices, users, companyInfo, localStorage, formItems, passed,
          db, pending, rtEvents, nCalls, session, last>>

-----------------------------------------------------------------------------
\* Bounds of the exploration
MaxCalls == 2
MaxInFlight == 2
MaxEvents == 1
MaxQty == 20
MaxItems == 2
MaxSessions == 2
TicksPerDay == 2

\* useState<number>(30), and the `|| 30` of fetchAllData
DefaultThreshold == 30

Providers == {"remote", "strict", "hybrid"}
Locations == {"Warehouse", "Main Office"}

Manager == [id |-> "u1", name |-> "Ama", role |-> "MANAGER"]
Staff == [id |-> "u2", name |-> "Kofi", role |-> "STAFF"]
NoUser == [id |-> "null", name |-> "null", role |-> "null"]

DbId(k) == <<"db", k>>
ClientId(k) == <<"form", k>>
LocalId(k) == <<"local-", k>>

DayStart(d) == d * TicksPerDay
StartTimes == {0, DayStart(10) + 1}
ThresholdChoices == {7, 60}
Deltas == {-1, 2}
Amounts == {1}

\* JS null in a numeric or date column, and in a text column
Null == -1000
NullText == "null"

\* What the product form can submit (id is set by the caller); category, unit
\* and supplier are texts carried like name
FormProducts ==
  { [name |-> "acid", qtyWarehouse |-> 2, qtyOffice |-> 0, reorderLevel |-> 1,
     productionDate |-> 1, expirationDate |-> 40, origin |-> "", deliveryAgent |-> "",
     price |-> 5],
    [name |-> "base", qtyWarehouse |-> 1, qtyOffice |-> 0, reorderLevel |-> 1,
     productionDate |-> 1, expirationDate |-> 10, origin |-> "", deliveryAgent |-> "",
     price |-> 3] }

\* the product of the restocking scenario
ScenarioProduct ==
  [name |-> "P", qtyWarehouse |-> 10, qtyOffice |-> 0, reorderLevel |-> 15,
   productionDate |-> 1, expirationDate |-> 40, origin |-> "", deliveryAgent |-> "",
   price |-> 5]

WithId(f, id) ==
  [id |-> id, name |-> f.name, qtyWarehouse |-> f.qtyWarehouse, qtyOffice |-> f.qtyOffice,
   reorderLevel |-> f.reorderLevel, productionDate |-> f.productionDate,
   expirationDate |-> f.expirationDate, origin |-> f.origin,
   deliveryAgent |-> f.deliveryAgent, price |-> f.price]

-----------------------------------------------------------------------------
\* Sequence helpers (Array.prototype.map / filter / find)
MapSeq(s, F(_)) == [i \in DOMAIN s |-> F(s[i])]
RemoveAt(s, i) == SubSeq(s, 1, i - 1) \o SubSeq(s, i + 1, Len(s))
HasId(s, id) == \E i \in DOMAIN s : s[i].id = id
Find(s, id) == s[CHOOSE i \in DOMAIN s : s[i].id = id /\ \A j \in DOMAIN s : s[j].id = id => i <= j]
Abs(x) == IF x < 0 THEN -x ELSE x
CeilDiv(a, b) == IF a % b = 0 THEN a \div b ELSE (a \div b) + 1

\* Array.prototype.sort((a, b) => b.date - a.date): stable, newest first
RECURSIVE InsertByDate(_, _)
InsertByDate(sorted, x) ==
  IF sorted = <<>> THEN <<x>>
  ELSE IF Head(sorted).date < x.date THEN <<x>> \o sorted
  ELSE <<Head(sorted)>> \o InsertByDate(Tail(sorted), x)

RECURSIVE SortByDateDesc(_)
SortByDateDesc(s) ==
  IF s = <<>> THEN <<>>
  ELSE InsertByDate(SortByDateDesc(SubSeq(s, 1, Len(s) - 1)), s[Len(s)])

IsManager_any_signed_in(u) == u.role # "null"

\* currentUser?.role !== 'MANAGER' is the rejection test of the gated operations
IsManager(u) == u.role = "MANAGER"

-----------------------------------------------------------------------------
\* Entity mapper

\* Number(v) of a column value: Number(null) is 0
Number(v) == IF v = Null THEN 0 ELSE v

\* v || null of a date: null stays null, a date stays the date
orNull(v) == IF v = Null THEN Null ELSE v

\* fetchAllData: remote row -> Product (the remote provider copies the
\* numeric columns without Number)
formatProduct(p) ==
  [id |-> p.id, name |-> p.name,
   qtyWarehouse |-> IF provider = "remote" THEN p.qty_warehouse ELSE Number(p.qty_warehouse),
   qtyOffice |-> IF provider = "remote" THEN p.qty_office ELSE Number(p.qty_office),
   reorderLevel |-> IF provider = "remote" THEN p.reorder_level ELSE Number(p.reorder_level),
   productionDate |-> p.production_date, expirationDate |-> p.expiration_date,
   origin |-> p.origin, deliveryAgent |-> p.delivery_agent,
   price |-> IF provider = "remote" THEN p.price ELSE Number(p.price)]

\* addProduct / updateProduct: Product -> row payload (no id)
dbProduct(product) ==
  [name |-> product.name, qty_warehouse |-> product.qtyWarehouse,
   qty_office |-> product.qtyOffice, reorder_level |-> product.reorderLevel,
   production_date |-> orNull(product.productionDate),
   expiration_date |-> orNull(product.expirationDate),
   origin |-> product.origin, delivery_agent |-> product.deliveryAgent,
   price |-> product.price]

RowWithId(r, id) ==
  [id |-> id, name |-> r.name, qty_warehouse |-> r.qty_warehouse, qty_office |-> r.qty_office,
   reorder_level |-> r.reorder_level, production_date |-> r.production_date,
   expiration_date |-> r.expiration_date, origin |-> r.origin,
   delivery_agent |-> r.delivery_agent, price |-> r.price]

-----------------------------------------------------------------------------
\* Notification derivation

Notif(kind, pid, type) == [id |-> <<kind, pid>>, type |-> type]

\* strict / hybrid: checkNotifications, the notifications of one product
notifsOf(p, threshold, t) ==
  LET total == p.qtyWarehouse + p.qtyOffice
      expiry == DayStart(p.expirationDate)
      warningDate == t + DayStart(threshold)
      low == IF total <= p.reorderLevel THEN <<Notif("low", p.id, "WARNING")>> ELSE <<>>
      exp == IF expiry < t THEN <<Notif("exp", p.id, "DANGER")>>
             ELSE IF expiry < warningDate THEN <<Notif("soon", p.id, "INFO")>>
             ELSE <<>>
  IN low \o exp

RECURSIVE checkNotifications(_, _, _)
checkNotifications(currentProducts, threshold, t) ==
  IF currentProducts = <<>> THEN <<>>
  ELSE notifsOf(Head(currentProducts), threshold, t)
         \o checkNotifications(Tail(currentProducts), threshold, t)

\* remote: checkThresholds(product, thresholdDays) on the list so far
checkThresholds(prev, product, thresholdDays, t) ==
  LET totalStock == product.qtyWarehouse + product.qtyOffice
      daysUntil == CeilDiv(DayStart(product.expirationDate) - t, TicksPerDay)
      afterLow == IF totalStock <= product.reorderLevel /\ ~HasId(prev, <<"low", product.id>>)
                  THEN <<Notif("low", product.id, "WARNING")>> \o prev
                  ELSE prev
  IN IF daysUntil <= thresholdDays /\ ~HasId(afterLow, <<"exp", product.id>>)
     THEN <<Notif("exp", product.id, "DANGER")>> \o afterLow
     ELSE afterLow

\* remote: useEffect(() => products.forEach(p => checkThresholds(p, expiryThreshold)))
RECURSIVE thresholdEffect(_, _, _, _)
thresholdEffect(prev, ps, thresholdDays, t) ==
  IF ps = <<>> THEN prev
  ELSE thresholdEffect(checkThresholds(prev, Head(ps), thresholdDays, t), Tail(ps), thresholdDays, t)

\* settingsRes.data?.value || 30
valueOrDefault(settings) ==
  IF settings = {} THEN DefaultThreshold
  ELSE LET v == CHOOSE x \in settings : TRUE IN IF v = 0 THEN DefaultThreshold ELSE v

-----------------------------------------------------------------------------
\* Stock payloads

\* adjustStock: { [updateField]: currentQty + delta }
adjustPayload(product, location, delta) ==
  IF location = "Warehouse"
  THEN [field |-> "qty_warehouse", newQty |-> product.qtyWarehouse + delta]
  ELSE [field |-> "qty_office", newQty |-> product.qtyOffice + delta]

updatePayload_credit_lost(product, from, to, amount) ==
  LET fromQty == IF from = "Warehouse" THEN product.qtyWarehouse ELSE product.qtyOffice
      toQty == IF to = "Warehouse" THEN product.qtyWarehouse ELSE product.qtyOffice
  IN [qty_warehouse |-> IF from = "Warehouse" THEN fromQty - amount ELSE toQty,
      qty_office |-> IF from = "Main Office" THEN fromQty - amount ELSE toQty + amount]

\* strict / hybrid transferStock: updatePayload
updatePayload(product, from, to, amount) ==
  LET fromQty == IF from = "Warehouse" THEN product.qtyWarehouse ELSE product.qtyOffice
      toQty == IF to = "Warehouse" THEN product.qtyWarehouse ELSE product.qtyOffice
  IN [qty_warehouse |-> IF from = "Warehouse" THEN fromQty - amount ELSE toQty + amount,
      qty_office |-> IF from = "Main Office" THEN fromQty - amount ELSE toQty + amount]

\* remote transferStock: updates
transferUpdates(product, from, to, amount) ==
  LET currentFrom == IF from = "Warehouse" THEN product.qtyWarehouse ELSE product.qtyOffice
      currentTo == IF to = "Warehouse" THEN product.qtyWarehouse ELSE product.qtyOffice
  IN IF from = "Warehouse"
     THEN [qty_warehouse |-> currentFrom - amount, qty_office |-> currentTo + amount]
     ELSE [qty_warehouse |-> currentTo + amount, qty_office |-> currentFrom - amount]

transferPayload(product, from, to, amount) ==
  IF provider = "remote" THEN transferUpdates(product, from, to, amount)
  ELSE updatePayload(product, from, to, amount)

InRange(q) == -MaxQty <= q /\ q <= MaxQty

-----------------------------------------------------------------------------
\* Requests and the remote store

NoRes == [ok |-> FALSE]
Request(op, arg) ==
  [op |-> op, st |-> "sent", by |-> currentUser, arg |-> arg, res |-> NoRes]

\* the prefix returned before any request (role gate, product not found)
Return(op, how) ==
  /\ nCalls < MaxCalls
  /\ nCalls' = nCalls + 1
  /\ last' = [ev |-> "call", op |-> op, res |-> how]
  /\ UNCHANGED <<fixedVars, ledgerVars, adminVars, formVars, db, pending, rtEvents>>

\* the prefix issued a request and suspended at its await
Send(op, arg) ==
  /\ nCalls < MaxCalls
  /\ Len(pending) < MaxInFlight
  /\ nCalls' = nCalls + 1
  /\ pending' = Append(pending, Request(op, arg))
  /\ last' = [ev |-> "call", op |-> op, res |-> "sent"]
  /\ UNCHANGED <<fixedVars, formVars, db, rtEvents>>

\* logAction / addLog: one row into logs, skipped when the closure has no user
logAction(logs, by, action, productName, details) ==
  IF by = NoUser THEN logs
  ELSE Append(logs, [action |-> action, productName |-> productName,
                     details |-> details, performedBy |-> by.name])

\* the realtime channel exists in the strict and hybrid providers only
Notify(changed) ==
  IF changed /\ provider # "remote" /\ rtEvents < MaxEvents THEN rtEvents + 1 ELSE rtEvents

productsAfter_every_row(r) ==
  CASE r.op = "addProduct" -> Append(db.products, RowWithId(r.arg.row, DbId(db.nextId)))
    [] r.op = "updateProduct" ->
         MapSeq(db.products, LAMBDA x : IF x.id = r.arg.product.id
                                         THEN RowWithId(r.arg.row, x.id) ELSE x)
    [] r.op = "deleteProduct" -> SelectSeq(db.products, LAMBDA x : x.id # r.arg.id)
    [] r.op = "adjustStock" ->
         MapSeq(db.products, LAMBDA x : IF r.arg.payload.field = "qty_warehouse"
                                         THEN [x EXCEPT !.qty_warehouse = r.arg.payload.newQty]
                                         ELSE [x EXCEPT !.qty_office = r.arg.payload.newQty])
    [] r.op = "transferStock" ->
         MapSeq(db.products, LAMBDA x : IF x.id # r.arg.productId THEN x
                                         ELSE [x EXCEPT !.qty_warehouse = r.arg.payload.qty_warehouse,
                                                        !.qty_office = r.arg.payload.qty_office])
    [] OTHER -> db.products

productsAfter_delta_merged(r) ==
  CASE r.op = "addProduct" -> Append(db.products, RowWithId(r.arg.row, DbId(db.nextId)))
    [] r.op = "updateProduct" ->
         MapSeq(db.products, LAMBDA x : IF x.id = r.arg.product.id
                                         THEN RowWithId(r.arg.row, x.id) ELSE x)
    [] r.op = "deleteProduct" -> SelectSeq(db.products, LAMBDA x : x.id # r.arg.id)
    [] r.op = "adjustStock" ->
         MapSeq(db.products, LAMBDA x : IF x.id # r.arg.productId THEN x
                                         ELSE IF r.arg.payload.field = "qty_warehouse"
                                              THEN [x EXCEPT !.qty_warehouse = x.qty_warehouse + r.arg.delta]
                                              ELSE [x EXCEPT !.qty_office = x.qty_office + r.arg.delta])
    [] r.op = "transferStock" ->
         MapSeq(db.products, LAMBDA x : IF x.id # r.arg.productId THEN x
                                         ELSE [x EXCEPT !.qty_warehouse = r.arg.payload.qty_warehouse,
                                                        !.qty_office = r.arg.payload.qty_office])
    [] OTHER -> db.products

\* products table after request r
productsAfter(r) ==
  CASE r.op = "addProduct" -> Append(db.products, RowWithId(r.arg.row, DbId(db.nextId)))
    [] r.op = "updateProduct" ->
         MapSeq(db.products, LAMBDA x : IF x.id = r.arg.product.id
                                         THEN RowWithId(r.arg.row, x.id) ELSE x)
    [] r.op = "deleteProduct" -> SelectSeq(db.products, LAMBDA x : x.id # r.arg.id)
    [] r.op = "adjustStock" ->
         MapSeq(db.products, LAMBDA x : IF x.id # r.arg.productId THEN x
                                         ELSE IF r.arg.payload.field = "qty_warehouse"
                                              THEN [x EXCEPT !.qty_warehouse = r.arg.payload.newQty]
                                              ELSE [x EXCEPT !.qty_office = r.arg.payload.newQty])
    [] r.op = "transferStock" ->
         MapSeq(db.products, LAMBDA x : IF x.id # r.arg.productId THEN x
                                         ELSE [x EXCEPT !.qty_warehouse = r.arg.payload.qty_warehouse,
                                                        !.qty_office = r.arg.payload.qty_office])
    [] OTHER -> db.products

settingsAfter(r) ==
  IF r.op = "setExpiryThreshold" THEN {r.arg.days} ELSE db.settings

suppliersAfter(r) ==
  CASE r.op = "addSupplier" ->
         Append(db.suppliers, [id |-> DbId(db.nextId), company_name |-> r.arg.row.company_name])
    [] r.op = "updateSupplier" ->
         MapSeq(db.suppliers, LAMBDA x : IF x.id = r.arg.supplier.id
                                          THEN [x EXCEPT !.company_name = r.arg.row.company_name]
                                          ELSE x)
    [] r.op = "deleteSupplier" -> SelectSeq(db.suppliers, LAMBDA x : x.id # r.arg.id)
    [] OTHER -> db.suppliers

invoicesAfter(r) ==
  CASE r.op = "addInvoice" ->
         Append(db.invoices, [id |-> DbId(db.nextId), invoice_number |-> r.arg.row.invoice_number,
                              date |-> r.arg.row.date, items |-> r.arg.row.items,
                              total_amount |-> r.arg.row.total_amount])
    [] r.op = "updateInvoice" ->
         MapSeq(db.invoices, LAMBDA x : IF x.id = r.arg.invoice.id
                                         THEN [id |-> x.id, invoice_number |-> r.arg.row.invoice_number,
                                               date |-> r.arg.row.date, items |-> r.arg.row.items,
                                               total_amount |-> r.arg.row.total_amount]
                                         ELSE x)
    [] r.op = "deleteInvoice" -> SelectSeq(db.invoices, LAMBDA x : x.id # r.arg.id)
    [] OTHER -> db.invoices

profilesAfter(r) ==
  IF r.op = "updateUserRole"
  THEN MapSeq(db.profiles, LAMBDA x : IF x.id = r.arg.userId THEN [x EXCEPT !.role = r.arg.newRole]
                                      ELSE x)
  ELSE db.profiles

companyAfter(r) ==
  IF r.op = "updateCompanyInfo" THEN {r.arg.info} ELSE db.company

Inserts == {"addProduct", "addSupplier", "addInvoice"}

\* what the select of each table returns to a fetch
Tables == {"products", "suppliers", "profiles", "settings", "invoices", "company"}
Selected(missing) ==
  [products |-> IF "products" \in missing THEN <<>> ELSE db.products,
   suppliers |-> IF "suppliers" \in missing THEN <<>> ELSE db.suppliers,
   profiles |-> IF "profiles" \in missing THEN <<>> ELSE db.profiles,
   settings |-> IF "settings" \in missing THEN {} ELSE db.settings,
   invoices |-> IF "invoices" \in missing THEN <<>> ELSE db.invoices,
   company |-> IF "company" \in missing THEN {} ELSE db.company,
   got |-> Tables \ missing, ok |-> TRUE]

resultOf(r) ==
  CASE r.op \in Inserts -> [ok |-> TRUE, id |-> DbId(db.nextId)]
    [] r.op = "fetchAllData" -> Selected({})
    [] OTHER -> [ok |-> TRUE]

\* the store answers request i without error
DbOk(i) ==
  /\ i \in DOMAIN pending
  /\ pending[i].st = "sent"
  /\ LET r == pending[i]
         after == [products |-> productsAfter(r), settings |-> settingsAfter(r),
                   suppliers |-> suppliersAfter(r), invoices |-> invoicesAfter(r),
                   profiles |-> profilesAfter(r), company |-> companyAfter(r),
                   logs |-> db.logs,
                   nextId |-> IF r.op \in Inserts THEN db.nextId + 1 ELSE db.nextId]
     IN /\ db' = after
        /\ rtEvents' = Notify(after # db)
        /\ pending' = [pending EXCEPT ![i].st = "ok", ![i].res = resultOf(r)]
  /\ UNCHANGED <<fixedVars, ledgerVars, adminVars, formVars, nCalls, last>>

\* the store (or the network) answers request i with an error
DbErr(i) ==
  /\ i \in DOMAIN pending
  /\ pending[i].st = "sent"
  /\ pending' = [pending EXCEPT ![i].st = "err"]
  /\ UNCHANGED <<fixedVars, ledgerVars, adminVars, formVars, db, rtEvents, nCalls, last>>

\* the end of a continuation: its log rows are in, its request is gone
\* the continuation of request i has run to its end; how tells how it ended
FinishAs(i, newLogs, how) ==
  /\ db' = [db EXCEPT !.logs = newLogs]
  /\ rtEvents' = Notify(newLogs # db.logs)
  /\ pending' = RemoveAt(pending, i)
  /\ last' = [ev |-> "done", op |-> pending[i].op, res |-> how]
  /\ UNCHANGED <<fixedVars, formVars, nCalls>>

Finish(i, newLogs) == FinishAs(i, newLogs, pending[i].st)

\* a ledger continuation: new in-memory products, notifications, threshold and log rows
Continue(i, newProducts, newNotifs, newThreshold, newLogs) ==
  /\ Finish(i, newLogs)
  /\ products' = newProducts
  /\ notifications' = newNotifs
  /\ expiryThreshold' = newThreshold
  /\ UNCHANGED adminVars

Resumable(i, op) ==
  /\ i \in DOMAIN pending
  /\ pending[i].op = op
  /\ pending[i].st \in {"ok", "err"}

\* remote: the effect re-runs when products or expiryThreshold were set
afterEffect(newProducts, thresholdDays) ==
  IF provider = "remote" /\ newProducts # <<>>
  THEN thresholdEffect(notifications, newProducts, thresholdDays, now)
  ELSE notifications

-----------------------------------------------------------------------------
\* Product operations

addProductCall(f) ==
  LET product == WithId(f, ClientId(nCalls + 1))
  IN IF ~IsManager(currentUser)
     THEN Return("addProduct", "rejected")
     ELSE /\ Send("addProduct", [product |-> product, row |-> dbProduct(product)])
          /\ UNCHANGED <<ledgerVars, adminVars>>

addProductResume(i) ==
  /\ Resumable(i, "addProduct")
  /\ LET r == pending[i]
         newProduct == IF provider = "hybrid" THEN r.arg.product
                       ELSE [r.arg.product EXCEPT !.id = r.res.id]
         appended == Append(products, newProduct)
     IN IF r.st = "err"
        THEN Continue(i, products, notifications, expiryThreshold, db.logs)
        ELSE Continue(i, appended, afterEffect(appended, expiryThreshold), expiryThreshold,
                      logAction(db.logs, r.by, "CREATE", r.arg.product.name,
                                [text |-> "Added new product", n |-> 0]))

updateProductCall(k, f) ==
  /\ k \in DOMAIN products
  /\ LET product == WithId(f, products[k].id)
     IN IF ~IsManager(currentUser)
        THEN Return("updateProduct", "rejected")
        ELSE /\ Send("updateProduct", [product |-> product, row |-> dbProduct(product)])
             /\ UNCHANGED <<ledgerVars, adminVars>>

updateProductResume(i) ==
  /\ Resumable(i, "updateProduct")
  /\ LET r == pending[i]
         mapped == MapSeq(products, LAMBDA p : IF p.id = r.arg.product.id THEN r.arg.product ELSE p)
     IN IF r.st = "err"
        THEN Continue(i, products, notifications, expiryThreshold, db.logs)
        ELSE Continue(i, mapped, afterEffect(mapped, expiryThreshold), expiryThreshold,
                      logAction(db.logs, r.by, "UPDATE", r.arg.product.name,
                                [text |-> "Updated details", n |-> 0]))

deleteProductCall(k) ==
  /\ k \in DOMAIN products
  /\ IF ~IsManager(currentUser)
     THEN Return("deleteProduct", "rejected")
     ELSE /\ Send("deleteProduct", [id |-> products[k].id, pName |-> Find(products, products[k].id).name])
          /\ UNCHANGED <<ledgerVars, adminVars>>

deleteProductResume(i) ==
  /\ Resumable(i, "deleteProduct")
  /\ LET r == pending[i]
         filtered == SelectSeq(products, LAMBDA p : p.id # r.arg.id)
     IN IF r.st = "err"
        THEN Continue(i, products, notifications, expiryThreshold, db.logs)
        ELSE Continue(i, filtered, afterEffect(filtered, expiryThreshold), expiryThreshold,
                      logAction(db.logs, r.by, "DELETE", r.arg.pName,
                                [text |-> "Deleted product", n |-> 0]))

-----------------------------------------------------------------------------
\* Stock movements (not role-gated)

adjustStockCall(productId, location, delta, reason) ==
  IF ~HasId(products, productId)
  THEN Return("adjustStock", "notfound")
  ELSE LET product == Find(products, productId)
           payload == adjustPayload(product, location, delta)
       IN /\ InRange(payload.newQty)
          /\ Send("adjustStock", [productId |-> productId, location |-> location, delta |-> delta,
                                  reason |-> reason, product |-> product, payload |-> payload])
          /\ UNCHANGED <<ledgerVars, adminVars>>

adjustStockResume(i) ==
  /\ Resumable(i, "adjustStock")
  /\ LET r == pending[i]
         a == r.arg
         mapped == MapSeq(products, LAMBDA p :
                     IF p.id # a.productId THEN p
                     ELSE IF a.location = "Warehouse"
                          THEN [p EXCEPT !.qtyWarehouse = p.qtyWarehouse + a.delta]
                          ELSE [p EXCEPT !.qtyOffice = p.qtyOffice + a.delta])
         action == IF a.delta > 0 THEN "ADD" ELSE "REMOVE"
     IN IF r.st = "err"
        THEN Continue(i, products, notifications, expiryThreshold, db.logs)
        ELSE IF provider = "remote"
        THEN Continue(i, mapped, afterEffect(mapped, expiryThreshold), expiryThreshold,
                      logAction(db.logs, r.by, action, a.product.name,
                                [text |-> IF a.delta > 0 THEN "Added" ELSE "Removed",
                                 n |-> Abs(a.delta)]))
        ELSE Continue(i, products, notifications, expiryThreshold,
                      logAction(db.logs, r.by, action, a.product.name,
                                [text |-> a.reason, n |-> a.delta]))

transferStockCall(productId, from, to, amount) ==
  IF ~HasId(products, productId)
  THEN Return("transferStock", "notfound")
  ELSE LET product == Find(products, productId)
           payload == transferPayload(product, from, to, amount)
       IN /\ InRange(payload.qty_warehouse)
          /\ InRange(payload.qty_office)
          /\ Send("transferStock", [productId |-> productId, from |-> from, to |-> to,
                                    amount |-> amount, product |-> product, payload |-> payload])
          /\ UNCHANGED <<ledgerVars, adminVars>>

transferStockResume(i) ==
  /\ Resumable(i, "transferStock")
  /\ LET r == pending[i]
         a == r.arg
         mapped == MapSeq(products, LAMBDA p :
                     IF p.id # a.productId THEN p
                     ELSE [p EXCEPT !.qtyWarehouse = a.payload.qty_warehouse,
                                    !.qtyOffice = a.payload.qty_office])
     IN IF r.st = "err"
        THEN Continue(i, products, notifications, expiryThreshold, db.logs)
        ELSE IF provider = "remote"
        THEN Continue(i, mapped, afterEffect(mapped, expiryThreshold), expiryThreshold,
                      logAction(db.logs, r.by, "TRANSFER", a.product.name,
                                [text |-> "Transferred", n |-> a.amount]))
        ELSE Continue(i, products, notifications, expiryThreshold,
                      logAction(db.logs, r.by, "TRANSFER", a.product.name,
                                [text |-> "Moved", n |-> a.amount]))

-----------------------------------------------------------------------------
\* Settings

\* remote: gated, sets the state before the upsert; strict / hybrid: no gate,
\* sets the state and re-derives from the closure's products after the upsert
setExpiryThresholdCall(days) ==
  IF provider = "remote"
  THEN IF ~IsManager(currentUser)
       THEN Return("setExpiryThreshold", "rejected")
       ELSE /\ Send("setExpiryThreshold", [days |-> days, products |-> products])
            /\ expiryThreshold' = days
            /\ notifications' = IF products # <<>>
                                THEN thresholdEffect(notifications, products, days, now)
                                ELSE notifications
            /\ UNCHANGED <<products, adminVars>>
  ELSE /\ Send("setExpiryThreshold", [days |-> days, products |-> products])
       /\ UNCHANGED <<ledgerVars, adminVars>>

setExpiryThresholdResume(i) ==
  /\ Resumable(i, "setExpiryThreshold")
  /\ LET r == pending[i]
     IN IF r.st = "err" \/ provider = "remote"
        THEN Continue(i, products, notifications, expiryThreshold, db.logs)
        ELSE Continue(i, products, checkNotifications(r.arg.products, r.arg.days, now),
                      r.arg.days, db.logs)

-----------------------------------------------------------------------------
\* Suppliers: gated in the remote provider only

SupplierNames == {"Acme", "Brenn"}
dbSupplier(supplier) == [company_name |-> supplier.companyName]

SupplierGate == provider = "remote" /\ ~IsManager(currentUser)

\* an admin continuation leaves the ledger's state alone
AdminDone(i, newLogs) ==
  /\ Finish(i, newLogs)
  /\ UNCHANGED ledgerVars

addSupplierCall(name) ==
  LET supplier == [id |-> ClientId(nCalls + 1), companyName |-> name]
  IN IF SupplierGate
     THEN Return("addSupplier", "rejected")
     ELSE /\ Send("addSupplier", [supplier |-> supplier, row |-> dbSupplier(supplier)])
          /\ UNCHANGED <<ledgerVars, adminVars>>

addSupplierResume(i) ==
  /\ Resumable(i, "addSupplier")
  /\ LET r == pending[i]
         newSupplier == IF provider = "hybrid" THEN r.arg.supplier
                        ELSE [r.arg.supplier EXCEPT !.id = r.res.id]
     IN IF r.st = "err"
        THEN AdminDone(i, db.logs) /\ UNCHANGED adminVars
        ELSE /\ AdminDone(i, IF provider = "remote"
                              THEN logAction(db.logs, r.by, "CREATE", r.arg.supplier.companyName,
                                             [text |-> "Supplier added", n |-> 0])
                              ELSE db.logs)
             /\ suppliers' = Append(suppliers, newSupplier)
             /\ UNCHANGED <<invoices, users, companyInfo, localStorage>>

updateSupplierCall(k, name) ==
  /\ k \in DOMAIN suppliers
  /\ LET supplier == [id |-> suppliers[k].id, companyName |-> name]
     IN IF SupplierGate
        THEN Return("updateSupplier", "rejected")
        ELSE /\ Send("updateSupplier", [supplier |-> supplier, row |-> dbSupplier(supplier)])
             /\ UNCHANGED <<ledgerVars, adminVars>>

updateSupplierResume(i) ==
  /\ Resumable(i, "updateSupplier")
  /\ LET r == pending[i]
     IN IF r.st = "err"
        THEN AdminDone(i, db.logs) /\ UNCHANGED adminVars
        ELSE /\ AdminDone(i, IF provider = "remote"
                              THEN logAction(db.logs, r.by, "UPDATE", r.arg.supplier.companyName,
                                             [text |-> "Supplier updated", n |-> 0])
                              ELSE db.logs)
             /\ suppliers' = MapSeq(suppliers, LAMBDA x : IF x.id = r.arg.supplier.id
                                                          THEN r.arg.supplier ELSE x)
             /\ UNCHANGED <<invoices, users, companyInfo, localStorage>>

deleteSupplierCall(k) ==
  /\ k \in DOMAIN suppliers
  /\ IF SupplierGate
     THEN Return("deleteSupplier", "rejected")
     ELSE /\ Send("deleteSupplier", [id |-> suppliers[k].id, sName |-> suppliers[k].companyName])
          /\ UNCHANGED <<ledgerVars, adminVars>>

deleteSupplierResume(i) ==
  /\ Resumable(i, "deleteSupplier")
  /\ LET r == pending[i]
     IN IF r.st = "err"
        THEN AdminDone(i, db.logs) /\ UNCHANGED adminVars
        ELSE /\ AdminDone(i, IF provider = "remote"
                              THEN logAction(db.logs, r.by, "DELETE", r.arg.sName,
                                             [text |-> "Supplier deleted", n |-> 0])
                              ELSE db.logs)
             /\ suppliers' = SelectSeq(suppliers, LAMBDA x : x.id # r.arg.id)
             /\ UNCHANGED <<invoices, users, companyInfo, localStorage>>

-----------------------------------------------------------------------------
\* Roles and company information

Roles == {"MANAGER", "STAFF"}
CompanyInfos == {[name |-> "UK Chemicals"], [name |-> "UKC Ltd"]}

updateUserRoleCall(userId, newRole) ==
  IF provider = "remote" /\ ~IsManager(currentUser)
  THEN Return("updateUserRole", "rejected")
  ELSE /\ Send("updateUserRole", [userId |-> userId, newRole |-> newRole])
       /\ UNCHANGED <<ledgerVars, adminVars>>

updateUserRoleResume(i) ==
  /\ Resumable(i, "updateUserRole")
  /\ LET r == pending[i]
     IN IF r.st = "err" \/ provider # "remote"
        THEN AdminDone(i, db.logs) /\ UNCHANGED adminVars
        ELSE /\ AdminDone(i, logAction(db.logs, r.by, "UPDATE", "User Role",
                                       [text |-> r.arg.userId, n |-> 0]))
             /\ users' = MapSeq(users, LAMBDA u : IF u.id = r.arg.userId
                                                  THEN [u EXCEPT !.role = r.arg.newRole] ELSE u)
             /\ UNCHANGED <<suppliers, invoices, companyInfo, localStorage>>

updateCompanyInfoCall(info) ==
  /\ provider # "remote"
  /\ Send("updateCompanyInfo", [info |-> info])
  /\ UNCHANGED <<ledgerVars, adminVars>>

updateCompanyInfoResume(i) ==
  /\ Resumable(i, "updateCompanyInfo")
  /\ LET r == pending[i]
     IN IF r.st = "err"
        THEN AdminDone(i, db.logs) /\ UNCHANGED adminVars
        ELSE /\ AdminDone(i, db.logs)
             /\ companyInfo' = r.arg.info
             /\ UNCHANGED <<suppliers, invoices, users, localStorage>>

-----------------------------------------------------------------------------
\* Invoices (strict and hybrid providers)

InvoiceForms ==
  { [invoiceNumber |-> "INV-1", date |-> 1, items |-> <<>>, totalAmount |-> 10],
    [invoiceNumber |-> "INV-2", date |-> 2,
     items |-> <<[id |-> 1, description |-> "acid", quantity |-> 4, rate |-> 5, amount |-> 20]>>,
     totalAmount |-> 20] }

\* a jsonb column holds an array or null
JsonArray(items) == <<"array", items>>
JsonNull == <<"null">>

dbInvoice(invoiceData) ==
  [invoice_number |-> invoiceData.invoiceNumber, date |-> invoiceData.date,
   items |-> JsonArray(invoiceData.items), total_amount |-> invoiceData.totalAmount]

InvoiceWithId(f, id) ==
  [id |-> id, invoiceNumber |-> f.invoiceNumber, date |-> f.date, items |-> f.items,
   totalAmount |-> f.totalAmount]

\* id.startsWith('local-')
IsLocal(id) == id[1] = "local-"

saveInvoiceToLocal_unsorted(invoice, stored) ==
  IF stored
  THEN /\ localStorage' = Append(SelectSeq(localStorage, LAMBDA x : x.id # invoice.id), invoice)
       /\ invoices' = <<invoice>> \o SelectSeq(invoices, LAMBDA x : x.id # invoice.id)
       /\ UNCHANGED <<suppliers, users, companyInfo>>
  ELSE UNCHANGED adminVars

\* hybrid: saveInvoiceToLocal(invoice). localStorage.setItem throws when the
\* device refuses the write (stored = FALSE): the catch returns false and
\* setInvoices is not reached
saveInvoiceToLocal(invoice, stored) ==
  IF stored
  THEN /\ localStorage' = Append(SelectSeq(localStorage, LAMBDA x : x.id # invoice.id), invoice)
       /\ invoices' = SortByDateDesc(<<invoice>> \o SelectSeq(invoices, LAMBDA x : x.id # invoice.id))
       /\ UNCHANGED <<suppliers, users, companyInfo>>
  ELSE UNCHANGED adminVars

\* how an operation that fell back to saveInvoiceToLocal ended
savedAs(stored) == IF stored THEN "local" ELSE "lost"

\* hybrid: deleteInvoiceFromLocal(id)
deleteInvoiceFromLocal(id) ==
  /\ localStorage' = SelectSeq(localStorage, LAMBDA x : x.id # id)
  /\ invoices' = SelectSeq(invoices, LAMBDA x : x.id # id)
  /\ UNCHANGED <<suppliers, users, companyInfo>>

\* the operation ran to its end without a request
Local(op, how) ==
  /\ nCalls < MaxCalls
  /\ nCalls' = nCalls + 1
  /\ last' = [ev |-> "call", op |-> op, res |-> how]
  /\ UNCHANGED <<fixedVars, ledgerVars, formVars, db, pending, rtEvents>>

addInvoiceCall(invoiceData) ==
  /\ provider # "remote"
  /\ IF ~IsManager(currentUser)
     THEN Return("addInvoice", "rejected")
     ELSE /\ Send("addInvoice", [invoiceData |-> invoiceData, row |-> dbInvoice(invoiceData),
                                 localId |-> LocalId(nCalls + 1)])
          /\ UNCHANGED <<ledgerVars, adminVars>>

addInvoiceResume(i) ==
  /\ Resumable(i, "addInvoice")
  /\ LET r == pending[i]
         newInv == [id |-> r.res.id, invoiceNumber |-> r.arg.row.invoice_number,
                    date |-> r.arg.row.date, items |-> r.arg.row.items[2],
                    totalAmount |-> r.arg.row.total_amount]
     IN IF r.st = "err"
        THEN IF provider = "hybrid"
             THEN \E stored \in BOOLEAN :
                    /\ FinishAs(i, db.logs, savedAs(stored))
                    /\ saveInvoiceToLocal(InvoiceWithId(r.arg.invoiceData, r.arg.localId), stored)
                    /\ UNCHANGED ledgerVars
             ELSE AdminDone(i, db.logs) /\ UNCHANGED adminVars
        ELSE /\ AdminDone(i, logAction(db.logs, r.by, "CREATE",
                                       "Invoice " \o r.arg.invoiceData.invoiceNumber,
                                       [text |-> "Created invoice", n |-> 0]))
             /\ invoices' = <<newInv>> \o invoices
             /\ UNCHANGED <<suppliers, users, companyInfo, localStorage>>

updateInvoiceCall(k, f) ==
  /\ provider # "remote"
  /\ k \in DOMAIN invoices
  /\ LET invoice == InvoiceWithId(f, invoices[k].id)
     IN IF ~IsManager(currentUser)
        THEN Return("updateInvoice", "rejected")
        ELSE IF provider = "hybrid" /\ IsLocal(invoice.id)
        THEN \E stored \in BOOLEAN :
               Local("updateInvoice", savedAs(stored)) /\ saveInvoiceToLocal(invoice, stored)
        ELSE /\ Send("updateInvoice", [invoice |-> invoice, row |-> dbInvoice(invoice)])
             /\ UNCHANGED <<ledgerVars, adminVars>>

updateInvoiceResume(i) ==
  /\ Resumable(i, "updateInvoice")
  /\ LET r == pending[i]
     IN IF r.st = "err"
        THEN IF provider = "hybrid"
             THEN \E stored \in BOOLEAN :
                    /\ FinishAs(i, db.logs, savedAs(stored))
                    /\ saveInvoiceToLocal(r.arg.invoice, stored)
                    /\ UNCHANGED ledgerVars
             ELSE AdminDone(i, db.logs) /\ UNCHANGED adminVars
        ELSE /\ AdminDone(i, logAction(db.logs, r.by, "UPDATE",
                                       "Invoice " \o r.arg.invoice.invoiceNumber,
                                       [text |-> "Updated invoice", n |-> 0]))
             /\ invoices' = MapSeq(invoices, LAMBDA x : IF x.id = r.arg.invoice.id
                                                        THEN r.arg.invoice ELSE x)
             /\ UNCHANGED <<suppliers, users, companyInfo, localStorage>>

deleteInvoiceCall(k) ==
  /\ provider # "remote"
  /\ k \in DOMAIN invoices
  /\ LET id == invoices[k].id
     IN IF ~IsManager(currentUser)
        THEN Return("deleteInvoice", "rejected")
        ELSE IF provider = "hybrid" /\ IsLocal(id)
        THEN Local("deleteInvoice", "local") /\ deleteInvoiceFromLocal(id)
        ELSE /\ Send("deleteInvoice", [id |-> id])
             /\ UNCHANGED <<ledgerVars, adminVars>>

deleteInvoiceResume(i) ==
  /\ Resumable(i, "deleteInvoice")
  /\ LET r == pending[i]
     IN IF r.st = "err"
        THEN IF provider = "hybrid"
             THEN /\ FinishAs(i, db.logs, "local")
                  /\ deleteInvoiceFromLocal(r.arg.id)
                  /\ UNCHANGED ledgerVars
             ELSE AdminDone(i, db.logs) /\ UNCHANGED adminVars
        ELSE /\ AdminDone(i, db.logs)
             /\ invoices' = SelectSeq(invoices, LAMBDA x : x.id # r.arg.id)
             /\ UNCHANGED <<suppliers, users, companyInfo, localStorage>>

-----------------------------------------------------------------------------
\* Refetch

formatSupplier(x) == [id |-> x.id, companyName |-> x.company_name]
\* items: Array.isArray(i.items) ? i.items : [], totalAmount: Number(i.total_amount)
formatInvoice(x) ==
  [id |-> x.id, invoiceNumber |-> x.invoice_number, date |-> x.date,
   items |-> IF x.items[1] = "array" THEN x.items[2] ELSE <<>>,
   totalAmount |-> Number(x.total_amount)]
formatUser(x) == [id |-> x.id, name |-> x.full_name, role |-> x.role]

\* hybrid: local invoices are pushed when no fetched invoice has their id
mergeLocal(fetchedInvoices, localInvoices) ==
  fetchedInvoices \o SelectSeq(localInvoices, LAMBDA l : ~HasId(fetchedInvoices, l.id))

\* the postgres_changes callback: if (currentUserIdRef.current) fetchAllData()
RealtimeEvent ==
  /\ rtEvents > 0
  /\ rtEvents' = rtEvents - 1
  /\ IF session.userIdRef = NoUser.id
     THEN UNCHANGED pending
     ELSE /\ Len(pending) < MaxInFlight
          /\ pending' = Append(pending, Request("fetchAllData", [x |-> 0]))
  /\ UNCHANGED <<fixedVars, ledgerVars, adminVars, formVars, db, nCalls, last>>

\* the fetch is answered, but the select of one table came back without data
FetchPartial(i, missing) ==
  /\ i \in DOMAIN pending
  /\ pending[i].op = "fetchAllData"
  /\ pending[i].st = "sent"
  /\ pending' = [pending EXCEPT ![i].st = "ok", ![i].res = Selected({missing})]
  /\ UNCHANGED <<fixedVars, ledgerVars, adminVars, formVars, db, rtEvents, nCalls, last>>

fetchAllDataResume(i) ==
  /\ Resumable(i, "fetchAllData")
  /\ LET r == pending[i]
         got == r.res.got
         formattedProducts == MapSeq(r.res.products, formatProduct)
         fetchedInvoices == MapSeq(r.res.invoices, formatInvoice)
     IN IF r.st = "err"
        THEN /\ Finish(i, db.logs)
             /\ UNCHANGED <<ledgerVars, adminVars>>
        ELSE /\ Finish(i, db.logs)
             /\ products' = IF "products" \in got THEN formattedProducts ELSE products
             /\ notifications' =
                  IF "products" \in got
                  THEN checkNotifications(formattedProducts, valueOrDefault(r.res.settings), now)
                  ELSE notifications
             /\ expiryThreshold' = IF r.res.settings # {} THEN CHOOSE v \in r.res.settings : TRUE
                                   ELSE expiryThreshold
             /\ suppliers' = IF "suppliers" \in got THEN MapSeq(r.res.suppliers, formatSupplier)
                             ELSE suppliers
             /\ invoices' = IF provider = "hybrid"
                            THEN SortByDateDesc(mergeLocal(fetchedInvoices, localStorage))
                            ELSE IF "invoices" \in got THEN SortByDateDesc(fetchedInvoices)
                            ELSE invoices
             /\ users' = IF "profiles" \in got THEN MapSeq(r.res.profiles, formatUser) ELSE users
             /\ companyInfo' = IF r.res.company # {} THEN CHOOSE v \in r.res.company : TRUE
                               ELSE companyInfo
             /\ UNCHANGED localStorage

-----------------------------------------------------------------------------
\* Session resolution: handleUserSession (strict, hybrid), fetchUserData (remote)

AdminEmail == "sagyeimensah@yahoo.com"
OtherEmail == "kofi@ukchem.com"

\* session.user of the auth layer: an id and an email
Identities == [id : {"u1", "u2", "u3"}, email : {AdminEmail, OtherEmail}]

\* isFetching.current = false; currentUserIdRef.current = currentUser?.id || null;
\* mount is where init stands, loading the flag of the provider, latest the
\* user id of the last auth event that carried a session, out whether the
\* last auth event was a sign-out
NoSession(ref) ==
  [st |-> "idle", id |-> "null", email |-> "null", lookup |-> "none", create |-> "none",
   inserts |-> 0, updates |-> 0, runs |-> 0, userIdRef |-> ref,
   mount |-> "subscribed", loading |-> FALSE, latest |-> ref, out |-> FALSE]

LookupOutcomes == {"data", "absent", "failed", "throw"}
CreateOutcomes == {"ok", "error", "throw"}

isSuperAdmin == session.email = AdminEmail

\* the profile of the self-healing creation
newProfile ==
  [id |-> session.id, full_name |-> "Staff Member",
   role |-> IF provider # "remote" /\ isSuperAdmin THEN "MANAGER" ELSE "STAFF"]

userObj(profile) == [id |-> profile.id, name |-> profile.full_name, role |-> profile.role]

\* remote: the user set when no profile row could be had
fallbackUser == [id |-> session.id, name |-> "User", role |-> "STAFF"]

\* strict / hybrid: the user set in the catch block for the administrative address
fallbackAdmin == [id |-> session.id, name |-> "Manager", role |-> "MANAGER"]

\* where the code goes once the profile lookup has been answered
nextAfterLookup(outcome) ==
  CASE outcome = "data" -> "resolve"
    [] outcome = "throw" -> "caught"
    [] outcome = "absent" -> "create"
    [] OTHER -> IF provider = "remote" THEN "fallback" ELSE "create"

nextAfterCreate_retry(outcome) ==
  CASE outcome = "ok" -> "resolve"
    [] OTHER -> "create"

\* where the code goes once the creation of the profile has been answered
nextAfterCreate(outcome) ==
  CASE outcome = "ok" -> "resolve"
    [] provider # "remote" -> "resolve"
    [] outcome = "error" -> "fallback"
    [] OTHER -> "caught"

\* whether update({ role: 'MANAGER' }) is issued: always for the administrative
\* address (strict, hybrid), only when the row's role differs (remote)
reconciles(profile) ==
  IF provider = "remote" THEN isSuperAdmin /\ profile.role # "MANAGER" ELSE isSuperAdmin

\* finally: setLoading(false), isFetching.current = false; init, which awaited
\* the run, goes on to register the auth listener
ended(s) ==
  IF s.st = "idle" THEN [s EXCEPT !.loading = FALSE, !.mount = "subscribed"] ELSE s

SessionStep(s, user, profiles, fetch) ==
  /\ session' = ended(s)
  /\ currentUser' = user
  /\ db' = [db EXCEPT !.profiles = profiles]
  /\ rtEvents' = Notify(profiles # db.profiles)
  /\ fetch => Len(pending) < MaxInFlight
  /\ pending' = IF fetch THEN Append(pending, Request("fetchAllData", [x |-> 1])) ELSE pending
  /\ UNCHANGED <<provider, now, ledgerVars, adminVars, formVars, nCalls, last>>

\* from the administrative override to the end of the try block
Resolve(s, profile, profiles) ==
  \E applied \in BOOLEAN :
    LET write == reconciles(profile)
        role == IF isSuperAdmin THEN "MANAGER" ELSE profile.role
        synced == IF write /\ applied
                  THEN MapSeq(profiles, LAMBDA x : IF x.id = s.id THEN [x EXCEPT !.role = "MANAGER"]
                                                   ELSE x)
                  ELSE profiles
    IN /\ write \/ ~applied
       /\ SessionStep([s EXCEPT !.st = IF provider = "remote" THEN "idle" ELSE "fetching",
                                !.updates = IF write THEN @ + 1 ELSE @,
                                !.userIdRef = IF provider = "remote" THEN @ ELSE s.id],
                      userObj([profile EXCEPT !.role = role]), synced, provider # "remote")

\* the code after an await of the run, by where it goes
SessionGoes(next, s, profile, profiles) ==
  CASE next = "create" ->
         SessionStep([s EXCEPT !.st = "create", !.inserts = @ + 1], currentUser, profiles, FALSE)
    [] next = "resolve" -> Resolve(s, profile, profiles)
    [] next = "fallback" ->
         SessionStep([s EXCEPT !.st = "idle"], fallbackUser, profiles, FALSE)
    [] OTHER ->
         SessionStep([s EXCEPT !.st = "idle"],
                     IF provider # "remote" /\ isSuperAdmin THEN fallbackAdmin ELSE currentUser,
                     profiles, FALSE)

\* isFetching.current = true, and the lookup of the profile is issued
started(ident) ==
  [session EXCEPT !.st = "lookup", !.id = ident.id, !.email = ident.email,
                  !.lookup = "none", !.create = "none", !.inserts = 0,
                  !.updates = 0, !.runs = @ + 1, !.latest = ident.id, !.out = FALSE]

\* an auth event with a session: the test on products reads the empty list of
\* the first render, so handleUserSession is called whatever the user id
handleUserSessionCall(ident) ==
  /\ session.mount = "subscribed"
  /\ session.st = "idle"
  /\ session.runs < MaxSessions
  /\ SessionStep(started(ident), currentUser, db.profiles, FALSE)

\* if (isFetching.current) return: an auth event with a session arrives while
\* a run is in flight
handleUserSessionDropped(ident) ==
  /\ provider # "remote"
  /\ session.mount = "subscribed"
  /\ session.st # "idle"
  /\ session.runs < MaxSessions
  /\ SessionStep([session EXCEPT !.runs = @ + 1, !.latest = ident.id, !.out = FALSE],
                 currentUser, db.profiles, FALSE)

\* select('*').eq('id', userId).single() is answered
lookupAnswered(outcome) ==
  /\ session.st = "lookup"
  /\ outcome = "data" => HasId(db.profiles, session.id)
  /\ outcome = "absent" => ~HasId(db.profiles, session.id)
  /\ SessionGoes(nextAfterLookup(outcome), [session EXCEPT !.lookup = outcome],
                 IF outcome = "data" THEN Find(db.profiles, session.id) ELSE newProfile,
                 db.profiles)

\* insert(newProfile).select().single() is answered
createAnswered(outcome) ==
  /\ session.st = "create"
  /\ outcome = "ok" => ~HasId(db.profiles, session.id)
  /\ SessionGoes(nextAfterCreate(outcome), [session EXCEPT !.create = outcome], newProfile,
                 IF outcome = "ok" THEN Append(db.profiles, newProfile) ELSE db.profiles)

\* finally: isFetching.current = false, once the awaited fetchAllData is over
handleUserSessionFinally ==
  /\ session.st = "fetching"
  /\ ~\E i \in DOMAIN pending : pending[i].op = "fetchAllData" /\ pending[i].arg.x = 1
  /\ SessionStep([session EXCEPT !.st = "idle"], currentUser, db.profiles, FALSE)

\* clearData, and what the caller does to the flags
clearData(s) ==
  /\ currentUser' = NoUser
  /\ session' = [s EXCEPT !.userIdRef = NoUser.id]
  /\ users' = <<>>
  /\ products' = <<>>
  /\ suppliers' = <<>>
  /\ invoices' = <<>>
  /\ notifications' = <<>>
  /\ UNCHANGED <<provider, now, expiryThreshold, companyInfo, localStorage, formVars,
                 db, pending, rtEvents, nCalls, last>>

\* onAuthStateChange: the event SIGNED_OUT, without a session
SIGNED_OUT ==
  /\ provider # "remote"
  /\ session.mount = "subscribed"
  /\ clearData([session EXCEPT !.loading = FALSE, !.out = TRUE])

\* init: supabase.auth.getSession() is answered with a session, and init
\* awaits handleUserSession
getSessionFound(ident) ==
  /\ session.mount = "getSession"
  /\ SessionStep([started(ident) EXCEPT !.mount = "resolving"], currentUser, db.profiles, FALSE)

\* init: getSession is answered without a session
getSessionEmpty ==
  /\ session.mount = "getSession"
  /\ clearData([session EXCEPT !.loading = FALSE, !.mount = "subscribed"])

\* init: the promise of getSession is rejected, and init ends there
getSessionRejected ==
  /\ session.mount = "getSession"
  /\ session' = [session EXCEPT !.mount = "thrown"]
  /\ UNCHANGED <<provider, currentUser, now, ledgerVars, adminVars, formVars,
                 db, pending, rtEvents, nCalls, last>>

SessionOps ==
  \/ \E ident \in Identities : handleUserSessionCall(ident)
  \/ \E ident \in Identities : handleUserSessionDropped(ident)
  \/ \E outcome \in LookupOutcomes : lookupAnswered(outcome)
  \/ \E outcome \in CreateOutcomes : createAnswered(outcome)
  \/ handleUserSessionFinally

-----------------------------------------------------------------------------
\* Invoices page: the form of the CREATE view

InitialItems == <<[id |-> 1, description |-> "", quantity |-> 1, rate |-> 0, amount |-> 0]>>
NoInvoice == [items |-> <<>>, totalAmount |-> 0, st |-> "none"]

Quantities == {0, 2}
Rates == {3}
Descriptions == {"acid"}

\* Math.random().toString(): an id no current item has
FreshItemId == CHOOSE k \in 2..(MaxItems + 2) : ~HasId(formItems, k)

\* formItems.reduce((sum, item) => sum + item.amount, 0)
RECURSIVE SumAmounts(_)
SumAmounts(items) ==
  IF items = <<>> THEN 0 ELSE SumAmounts(SubSeq(items, 1, Len(items) - 1)) + items[Len(items)].amount

\* the form is edited between saves: whatever is typed while handleSave awaits
\* addInvoice is overwritten by the reset of its continuation
Editing == passed.st # "awaiting"

FormStep == UNCHANGED <<fixedVars, ledgerVars, adminVars, db, pending, rtEvents, nCalls, last>>

handleAddItem ==
  /\ Editing
  /\ Len(formItems) < MaxItems
  /\ formItems' = Append(formItems, [id |-> FreshItemId, description |-> "", quantity |-> 1,
                                     rate |-> 0, amount |-> 0])
  /\ UNCHANGED passed
  /\ FormStep

\* the remove button is rendered when formItems.length > 1
handleRemoveItem(id) ==
  /\ Editing
  /\ Len(formItems) > 1
  /\ HasId(formItems, id)
  /\ formItems' = SelectSeq(formItems, LAMBDA x : x.id # id)
  /\ UNCHANGED passed
  /\ FormStep

itemChanged(item, field, value) ==
  LET updated == [item EXCEPT ![field] = value]
  IN IF field = "quantity" \/ field = "rate"
     THEN [updated EXCEPT !.amount = updated.quantity * updated.rate]
     ELSE updated

handleItemChange(id, field, value) ==
  /\ Editing
  /\ HasId(formItems, id)
  /\ formItems' = MapSeq(formItems, LAMBDA item : IF item.id = id
                                                  THEN itemChanged(item, field, value) ELSE item)
  /\ UNCHANGED passed
  /\ FormStep

itemSelected_amount_kept(item, product) ==
  [item EXCEPT !.description = product.name, !.rate = product.price]

itemSelected(item, product) ==
  [item EXCEPT !.description = product.name, !.rate = product.price,
               !.amount = product.price * item.quantity]

\* the dropdown of a row lists the products whose name includes its description
Suggested(item, product) == item.description = "" \/ item.description = product.name

handleProductSelect(itemId, product) ==
  /\ Editing
  /\ HasId(formItems, itemId)
  /\ Suggested(Find(formItems, itemId), product)
  /\ formItems' = MapSeq(formItems, LAMBDA item : IF item.id = itemId
                                                  THEN itemSelected(item, product) ELSE item)
  /\ UNCHANGED passed
  /\ FormStep

\* the save button is disabled while total === 0
handleSave ==
  /\ Editing
  /\ SumAmounts(formItems) # 0
  /\ passed' = [items |-> formItems, totalAmount |-> SumAmounts(formItems), st |-> "awaiting"]
  /\ UNCHANGED formItems
  /\ FormStep

\* after `await addInvoice(...)`: the form is reset
handleSaveResume ==
  /\ passed.st = "awaiting"
  /\ formItems' = InitialItems
  /\ passed' = NoInvoice
  /\ FormStep

ItemIds == {formItems[k].id : k \in DOMAIN formItems}
ProductsListed == {products[k] : k \in DOMAIN products}

MissingId == DbId(0)
ProductIds == {products[k].id : k \in DOMAIN products} \cup {MissingId}

-----------------------------------------------------------------------------
AcidRow == RowWithId(dbProduct(WithId(CHOOSE f \in FormProducts : f.name = "acid", DbId(1))), DbId(1))
FirstInvoice == CHOOSE f \in InvoiceForms : f.invoiceNumber = "INV-1"

InitialDb ==
  [products |-> <<AcidRow>>,
   settings |-> {},
   suppliers |-> <<[id |-> DbId(2), company_name |-> "Acme"]>>,
   invoices |-> IF provider = "remote" THEN <<>>
                ELSE <<[id |-> DbId(3), invoice_number |-> FirstInvoice.invoiceNumber,
                        date |-> FirstInvoice.date, items |-> JsonArray(FirstInvoice.items),
                        total_amount |-> FirstInvoice.totalAmount]>>,
   profiles |-> <<[id |-> Manager.id, full_name |-> Manager.name, role |-> Manager.role],
                  [id |-> Staff.id, full_name |-> Staff.name, role |-> Staff.role]>>,
   company |-> {},
   logs |-> <<>>,
   nextId |-> 4]

\* the state once the session is resolved and the first fetchAllData has
\* run on the store d
InitWith(d) ==
  /\ provider \in Providers
  /\ currentUser \in {Manager, Staff, NoUser}
  /\ now \in StartTimes
  /\ db = d
  /\ products = MapSeq(db.products, formatProduct)
  /\ expiryThreshold = DefaultThreshold
  /\ notifications = IF provider = "remote"
                     THEN thresholdEffect(<<>>, products, expiryThreshold, now)
                     ELSE checkNotifications(products, valueOrDefault(db.settings), now)
  /\ suppliers = MapSeq(db.suppliers, formatSupplier)
  /\ invoices = MapSeq(db.invoices, formatInvoice)
  /\ users = MapSeq(db.profiles, formatUser)
  /\ companyInfo = CHOOSE c \in CompanyInfos : c.name = "UK Chemicals"
  /\ localStorage = <<>>
  /\ formItems = InitialItems
  /\ passed = NoInvoice
  /\ pending = <<>>
  /\ rtEvents = 0
  /\ nCalls = 0
  /\ session = NoSession(currentUser.id)
  /\ last = [ev |-> "none", op |-> "none", res |-> "none"]

Init == InitWith(InitialDb)

Store ==
  \/ \E i \in DOMAIN pending : DbOk(i)
  \/ \E i \in DOMAIN pending : DbErr(i)

ProductOps ==
  \/ \E f \in FormProducts : addProductCall(f)
  \/ \E i \in DOMAIN pending : addProductResume(i)
  \/ \E k \in DOMAIN products, f \in FormProducts : updateProductCall(k, f)
  \/ \E i \in DOMAIN pending : updateProductResume(i)
  \/ \E k \in DOMAIN products : deleteProductCall(k)
  \/ \E i \in DOMAIN pending : deleteProductResume(i)

StockOps ==
  \/ \E id \in ProductIds, l \in Locations, d \in Deltas : adjustStockCall(id, l, d, "count")
  \/ \E i \in DOMAIN pending : adjustStockResume(i)
  \/ \E id \in ProductIds, from \in Locations, to \in Locations, a \in Amounts :
       transferStockCall(id, from, to, a)
  \/ \E i \in DOMAIN pending : transferStockResume(i)

ThresholdOps ==
  \/ \E days \in ThresholdChoices : setExpiryThresholdCall(days)
  \/ \E i \in DOMAIN pending : setExpiryThresholdResume(i)

Refetch(tables) ==
  \/ RealtimeEvent
  \/ \E i \in DOMAIN pending, missing \in tables : FetchPartial(i, missing)
  \/ \E i \in DOMAIN pending : fetchAllDataResume(i)

SupplierOps ==
  \/ \E name \in SupplierNames : addSupplierCall(name)
  \/ \E i \in DOMAIN pending : addSupplierResume(i)
  \/ \E k \in DOMAIN suppliers, name \in SupplierNames : updateSupplierCall(k, name)
  \/ \E i \in DOMAIN pending : updateSupplierResume(i)
  \/ \E k \in DOMAIN suppliers : deleteSupplierCall(k)
  \/ \E i \in DOMAIN pending : deleteSupplierResume(i)

SettingsOps ==
  \/ \E k \in DOMAIN users, newRole \in Roles : updateUserRoleCall(users[k].id, newRole)
  \/ \E i \in DOMAIN pending : updateUserRoleResume(i)
  \/ \E info \in CompanyInfos : updateCompanyInfoCall(info)
  \/ \E i \in DOMAIN pending : updateCompanyInfoResume(i)

InvoiceOps ==
  \/ \E f \in InvoiceForms : addInvoiceCall(f)
  \/ \E i \in DOMAIN pending : addInvoiceResume(i)
  \/ \E k \in DOMAIN invoices, f \in InvoiceForms : updateInvoiceCall(k, f)
  \/ \E i \in DOMAIN pending : updateInvoiceResume(i)
  \/ \E k \in DOMAIN invoices : deleteInvoiceCall(k)
  \/ \E i \in DOMAIN pending : deleteInvoiceResume(i)

FormOps ==
  \/ handleAddItem
  \/ \E id \in ItemIds : handleRemoveItem(id)
  \/ \E id \in ItemIds, v \in Quantities : handleItemChange(id, "quantity", v)
  \/ \E id \in ItemIds, v \in Rates : handleItemChange(id, "rate", v)
  \/ \E id \in ItemIds, v \in Descriptions : handleItemChange(id, "description", v)
  \/ \E id \in ItemIds, p \in ProductsListed : handleProductSelect(id, p)
  \/ handleSave
  \/ handleSaveResume

\* the stock ledger: products, stock movements and the expiry threshold
Next ==
  \/ ProductOps
  \/ StockOps
  \/ ThresholdOps
  \/ Refetch({"products", "settings"})
  \/ Store

Spec == Init /\ [][Next]_vars

\* suppliers, roles, company information and invoices
NextAdmin ==
  \/ SupplierOps
  \/ ThresholdOps
  \/ SettingsOps
  \/ InvoiceOps
  \/ Refetch({"suppliers", "invoices"})
  \/ Store

SpecAdmin == Init /\ [][NextAdmin]_vars

\* the invoice form, for a signed-in manager
InitForm == Init /\ provider = "strict" /\ currentUser = Manager /\ now = 0

SpecForm == InitForm /\ [][FormOps]_vars

\* the restocking scenario: a manager adds the product, then restocks it
InitScenario == Init /\ currentUser = Manager

NextScenario ==
  \/ addProductCall(ScenarioProduct)
  \/ \E i \in DOMAIN pending : addProductResume(i)
  \/ \E id \in ProductIds : adjustStockCall(id, "Warehouse", 10, "restock")
  \/ \E i \in DOMAIN pending : adjustStockResume(i)
  \/ Refetch({"products"})
  \/ Store

SpecScenario == InitScenario /\ [][NextScenario]_vars

\* session resolution, on top of the cached user and the loaded collections
NextSession ==
  \/ SessionOps
  \/ Refetch({"profiles"})
  \/ Store

SpecSession == Init /\ [][NextSession]_vars

\* the provider as it mounts: the cached user, nothing loaded, the spinner
\* shown, getSession issued
InitAuth ==
  /\ provider \in {"strict", "hybrid"}
  /\ currentUser \in {Manager, NoUser}
  /\ now = 0
  /\ db = InitialDb
  /\ products = <<>>
  /\ expiryThreshold = DefaultThreshold
  /\ notifications = <<>>
  /\ suppliers = <<>>
  /\ invoices = <<>>
  /\ users = <<>>
  /\ companyInfo = CHOOSE c \in CompanyInfos : c.name = "UK Chemicals"
  /\ localStorage = <<>>
  /\ formItems = InitialItems
  /\ passed = NoInvoice
  /\ pending = <<>>
  /\ rtEvents = 0
  /\ nCalls = 0
  /\ session = [NoSession(currentUser.id) EXCEPT !.mount = "getSession", !.loading = TRUE,
                                                !.latest = NoUser.id]
  /\ last = [ev |-> "none", op |-> "none", res |-> "none"]

\* the life of a session: mount, auth events, sign-out, with one product added
\* and the collections refetched meanwhile
Visitors == {ident \in Identities : ident.id \in {"u1", "u3"} /\ ident.email = OtherEmail}

NextAuth ==
  \/ \E ident \in Visitors : getSessionFound(ident)
  \/ getSessionEmpty
  \/ getSessionRejected
  \/ \E ident \in Visitors : handleUserSessionCall(ident)
  \/ \E ident \in Visitors : handleUserSessionDropped(ident)
  \/ \E outcome \in LookupOutcomes : lookupAnswered(outcome)
  \/ \E outcome \in CreateOutcomes : createAnswered(outcome)
  \/ handleUserSessionFinally
  \/ SIGNED_OUT
  \/ nCalls = 0 /\ addProductCall(ScenarioProduct)
  \/ \E i \in DOMAIN pending : addProductResume(i)
  \/ Refetch({"products"})
  \/ Store

SpecAuth == InitAuth /\ [][NextAuth]_vars

\* the mount alone: what getSession, the store and the continuations do
\* without any event from the user or the auth layer
NextMount ==
  \/ \E ident \in Visitors : getSessionFound(ident)
  \/ getSessionEmpty
  \/ getSessionRejected
  \/ \E outcome \in LookupOutcomes : lookupAnswered(outcome)
  \/ \E outcome \in CreateOutcomes : createAnswered(outcome)
  \/ handleUserSessionFinally
  \/ Refetch({"profiles"})
  \/ Store

\* every awaited promise settles and every continuation runs
SpecMount == InitAuth /\ [][NextMount]_vars /\ WF_vars(NextMount)

\* the entity mapper: rows as the store may hold them are loaded, then saved
\* back from the edit forms without a change
ProductRows ==
  { [AcidRow EXCEPT !.production_date = d, !.origin = o, !.delivery_agent = a, !.price = n] :
      d \in {Null, 1}, o \in {NullText, "UK"}, a \in {NullText, "DHL"}, n \in {Null, 5} }

InvoiceRows ==
  { [id |-> DbId(3), invoice_number |-> "INV-1", date |-> 1, items |-> j, total_amount |-> n] :
      j \in {JsonNull, JsonArray(<<>>)}, n \in {Null, 10} }

InitMapper ==
  \E row \in ProductRows, inv \in InvoiceRows :
    /\ InitWith([InitialDb EXCEPT !.products = <<row>>,
                                  !.invoices = IF provider = "remote" THEN <<>> ELSE <<inv>>])
    /\ currentUser = Manager

NextMapper ==
  \/ \E k \in DOMAIN products : updateProductCall(k, products[k])
  \/ \E i \in DOMAIN pending : updateProductResume(i)
  \/ \E k \in DOMAIN invoices : updateInvoiceCall(k, invoices[k])
  \/ \E i \in DOMAIN pending : updateInvoiceResume(i)
  \/ Refetch({"products", "invoices"})
  \/ Store

SpecMapper == InitMapper /\ [][NextMapper]_vars

\* two products, each the target of one ledger operation: the first call is on
\* the first product, the second call on the second
BaseRow == RowWithId(dbProduct(WithId(CHOOSE f \in FormProducts : f.name = "base", DbId(4))), DbId(4))

PairIds == <<AcidRow.id, BaseRow.id>>

InitPair ==
  /\ InitWith([InitialDb EXCEPT !.products = <<AcidRow, BaseRow>>, !.nextId = 5])
  /\ currentUser = Manager

\* the product the next call is on
IsTarget(id) == nCalls < Len(PairIds) /\ id = PairIds[nCalls + 1]

NextPair ==
  \/ \E k \in DOMAIN products, f \in FormProducts :
       IsTarget(products[k].id) /\ updateProductCall(k, f)
  \/ \E i \in DOMAIN pending : updateProductResume(i)
  \/ \E k \in DOMAIN products : IsTarget(products[k].id) /\ deleteProductCall(k)
  \/ \E i \in DOMAIN pending : deleteProductResume(i)
  \/ \E id \in ProductIds, l \in Locations, d \in Deltas :
       IsTarget(id) /\ adjustStockCall(id, l, d, "count")
  \/ \E i \in DOMAIN pending : adjustStockResume(i)
  \/ \E id \in ProductIds, from \in Locations, to \in Locations, a \in Amounts :
       IsTarget(id) /\ transferStockCall(id, from, to, a)
  \/ \E i \in DOMAIN pending : transferStockResume(i)
  \/ Store

SpecPair == InitPair /\ [][NextPair]_vars

\* the invoices of the hybrid provider: the invoices table and the on-device blob
InitHybrid == Init /\ provider = "hybrid"

NextHybrid ==
  \/ InvoiceOps
  \/ Refetch({"invoices"})
  \/ Store

SpecHybrid == InitHybrid /\ [][NextHybrid]_vars

-----------------------------------------------------------------------------
\* Vocabulary of the properties

\* the step is the synchronous prefix of operation op
Called(op) == nCalls' = nCalls + 1 /\ last'.ev = "call" /\ last'.op = op

\* the step is the store answering request i without error
Answered(i) ==
  /\ Len(pending') = Len(pending)
  /\ pending[i].st = "sent"
  /\ pending'[i].st = "ok"

\* the step is the continuation of request i
Resumed(i) ==
  /\ pending[i].st \in {"ok", "err"}
  /\ pending' = RemoveAt(pending, i)
  /\ last'.ev = "done"
  /\ last'.op = pending[i].op

QtyAt(product, location) ==
  IF location = "Warehouse" THEN product.qtyWarehouse ELSE product.qtyOffice
WrittenAt(payload, location) ==
  IF location = "Warehouse" THEN payload.qty_warehouse ELSE payload.qty_office

-----------------------------------------------------------------------------
\* C1: a transferStock between the two distinct locations writes, for the
\* product as the collection holds it at the call, from - amount and
\* to + amount, so the written total equals the total before; and when the
\* write succeeds the product's row holds exactly the written values.
C1_TransferConserves ==
  [][/\ Called("transferStock") /\ last'.res = "sent"
        => LET a == pending'[Len(pending')].arg
               old == Find(products, a.productId)
           IN a.from # a.to
              => /\ WrittenAt(a.payload, a.from) = QtyAt(old, a.from) - a.amount
                 /\ WrittenAt(a.payload, a.to) = QtyAt(old, a.to) + a.amount
                 /\ a.payload.qty_warehouse + a.payload.qty_office
                      = old.qtyWarehouse + old.qtyOffice
     /\ \A i \in DOMAIN pending :
          (Answered(i) /\ pending[i].op = "transferStock" /\ pending[i].arg.from # pending[i].arg.to)
          => \A k \in DOMAIN db'.products :
               db'.products[k].id = pending[i].arg.productId
               => /\ db'.products[k].qty_warehouse = pending[i].arg.payload.qty_warehouse
                  /\ db'.products[k].qty_office = pending[i].arg.payload.qty_office]_vars

\* a transfer from Main Office to Warehouse was written and its row is in the store
C1_Witness ==
  \E i \in DOMAIN pending :
    /\ pending[i].op = "transferStock"
    /\ pending[i].st = "ok"
    /\ pending[i].arg.from = "Main Office"
    /\ pending[i].arg.to = "Warehouse"
    /\ HasId(db.products, pending[i].arg.productId)

ProductOpNames == {"addProduct", "updateProduct", "deleteProduct"}

\* C2: addProduct, updateProduct or deleteProduct invoked while currentUser is
\* null or STAFF issues no request, leaves the in-memory products unchanged
\* and writes nothing to the store (no row, no log entry).
C2_ProductOpsGated ==
  [][(\E op \in ProductOpNames : Called(op)) /\ currentUser.role # "MANAGER"
       => /\ pending' = pending
          /\ products' = products
          /\ db' = db]_vars

\* a STAFF user's deleteProduct came back rejected after an earlier call
C2_Witness ==
  /\ currentUser = Staff
  /\ nCalls = 2
  /\ last = [ev |-> "call", op |-> "deleteProduct", res |-> "rejected"]

SupplierOpNames == {"addSupplier", "updateSupplier", "deleteSupplier"}

\* C3: addSupplier, updateSupplier or deleteSupplier invoked while currentUser
\* is null or STAFF issues no request, leaves the in-memory suppliers
\* unchanged and writes nothing to the store (no row, no log entry).
C3_SupplierOpsGated ==
  [][(\E op \in SupplierOpNames : Called(op)) /\ currentUser.role # "MANAGER"
       => /\ pending' = pending
          /\ suppliers' = suppliers
          /\ db' = db]_vars

SettingsOpNames == {"setExpiryThreshold", "updateCompanyInfo", "updateUserRole"}

\* C4: while the current user has role STAFF, no setExpiryThreshold,
\* updateCompanyInfo or updateUserRole request is issued, so the settings and
\* profile rows of the store and the in-memory expiryThreshold, companyInfo
\* and users stay what they were, and no log entry is written.
C4_SettingsRejectedForStaff ==
  currentUser.role = "STAFF"
    => /\ \A i \in DOMAIN pending : pending[i].op \notin SettingsOpNames
       /\ db.settings = InitialDb.settings
       /\ db.company = InitialDb.company
       /\ db.profiles = InitialDb.profiles
       /\ expiryThreshold = DefaultThreshold
       /\ companyInfo.name = "UK Chemicals"
       /\ users = MapSeq(InitialDb.profiles, formatUser)
       /\ db.logs = <<>>

MutationKinds ==
  [addProduct |-> {"CREATE"}, updateProduct |-> {"UPDATE"}, deleteProduct |-> {"DELETE"},
   addSupplier |-> {"CREATE"}, updateSupplier |-> {"UPDATE"}, deleteSupplier |-> {"DELETE"},
   addInvoice |-> {"CREATE"}, updateInvoice |-> {"UPDATE"}, deleteInvoice |-> {"DELETE"},
   adjustStock |-> {"ADD", "REMOVE"}, transferStock |-> {"TRANSFER"}]

\* C5: the continuation of a mutation whose write succeeded inserts exactly
\* one log entry, of the action kind of the operation; the continuation of a
\* failed one, and a rejected call, insert none.
C5_OneLogPerMutation ==
  [][/\ \A i \in DOMAIN pending :
          (Resumed(i) /\ pending[i].op \in DOMAIN MutationKinds)
          => IF pending[i].st = "ok"
             THEN /\ Len(db'.logs) = Len(db.logs) + 1
                  /\ db'.logs[Len(db'.logs)].action \in MutationKinds[pending[i].op]
             ELSE db'.logs = db.logs
     /\ (\E op \in DOMAIN MutationKinds : Called(op)) /\ last'.res = "rejected"
          => db'.logs = db.logs]_vars

Total(p) == p.qtyWarehouse + p.qtyOffice
IdSet(ns) == {ns[k].id : k \in DOMAIN ns}

\* C6: once an operation or a refetch has completed, with no request in
\* flight and no realtime event left to deliver, the list holds low-<id>
\* exactly for the in-memory products whose total is at or below their
\* reorder level.
C6_LowTracksStock ==
  (last.ev = "done" /\ pending = <<>> /\ rtEvents = 0)
    => /\ \A k \in DOMAIN products :
            Total(products[k]) <= products[k].reorderLevel
            <=> <<"low", products[k].id>> \in IdSet(notifications)
       /\ \A n \in IdSet(notifications) :
            n[1] = "low" => \E k \in DOMAIN products : products[k].id = n[2]

\* the mounted provider's derivation, run on the list prev
Derived(prev, ps, threshold, t) ==
  IF provider = "remote" THEN thresholdEffect(prev, ps, threshold, t)
  ELSE checkNotifications(ps, threshold, t)

\* C7: run at the current time on any product of the collection, the
\* derivation emits exp-<id> with type DANGER exactly when the product's
\* expiration date is before now.
C7_ExpiredRule ==
  \A k \in DOMAIN products :
    LET p == products[k]
        out == Derived(<<>>, <<p>>, expiryThreshold, now)
    IN (\E j \in DOMAIN out : out[j] = Notif("exp", p.id, "DANGER"))
       <=> DayStart(p.expirationDate) < now

SoonRule(ps, ns, threshold, t) ==
  \A k \in DOMAIN ps :
    LET expiry == DayStart(ps[k].expirationDate)
    IN /\ <<"soon", ps[k].id>> \in IdSet(ns)
            <=> (~(expiry < t) /\ expiry < t + DayStart(threshold))
       /\ ~(<<"exp", ps[k].id>> \in IdSet(ns) /\ <<"soon", ps[k].id>> \in IdSet(ns))

\* C8: when a refetch of the strict or hybrid provider has loaded the products,
\* the list holds soon-<id> exactly for the products that are not expired and
\* expire before now + the in-memory expiryThreshold days, and no product
\* has both exp-<id> and soon-<id>.
C8_SoonRule ==
  [][\A i \in DOMAIN pending :
       (Resumed(i) /\ pending[i].op = "fetchAllData" /\ pending[i].st = "ok"
          /\ "products" \in pending[i].res.got)
       => SoonRule(products', notifications', expiryThreshold', now)]_vars

\* C9: the list never holds two entries with the same id, and running the
\* derivation again on its own result, with the same products, threshold and
\* time, yields the same set of ids.
C9_DuplicateFree ==
  /\ \A i, j \in DOMAIN notifications : notifications[i].id = notifications[j].id => i = j
  /\ LET once == Derived(<<>>, products, expiryThreshold, now)
     IN IdSet(Derived(once, products, expiryThreshold, now)) = IdSet(once)

\* the sum over the items of quantity * rate
RECURSIVE SumQtyRate(_)
SumQtyRate(items) ==
  IF items = <<>> THEN 0
  ELSE Head(items).quantity * Head(items).rate + SumQtyRate(Tail(items))

\* C10: the invoice handleSave passes to addInvoice has totalAmount equal to
\* the sum over its items of quantity * rate, and every item of it, and of
\* the form at any time, has amount = quantity * rate.
C10_TotalAtSave ==
  /\ \A k \in DOMAIN formItems : formItems[k].amount = formItems[k].quantity * formItems[k].rate
  /\ passed.st # "none"
       => /\ passed.totalAmount = SumQtyRate(passed.items)
          /\ \A k \in DOMAIN passed.items :
               passed.items[k].amount = passed.items[k].quantity * passed.items[k].rate

\* an invoice of two items was passed, one with quantity 0 and one picked
\* from the product list with its quantity changed
C10_Witness ==
  /\ passed.st = "awaiting"
  /\ Len(passed.items) = 2
  /\ \E k \in DOMAIN passed.items : passed.items[k].quantity = 0 /\ passed.items[k].rate # 0
  /\ \E k \in DOMAIN passed.items :
       /\ passed.items[k].description = "acid"
       /\ passed.items[k].quantity = 2
       /\ passed.items[k].rate = 5

-----------------------------------------------------------------------------
LedgerOpNames == DOMAIN MutationKinds \cup SettingsOpNames

\* C11: a ledger operation changes the in-memory collections only in the
\* continuation of a write the store confirmed: its synchronous prefix
\* changes none of them, and the continuation of a write that returned an
\* error leaves them, and the log, exactly as they were.
C11_FailedMutationNoOp ==
  [][/\ (\E op \in LedgerOpNames : Called(op))
          => /\ <<products, notifications, expiryThreshold>>' = <<products, notifications, expiryThreshold>>
             /\ <<suppliers, invoices, users, companyInfo>>' = <<suppliers, invoices, users, companyInfo>>
     /\ \A i \in DOMAIN pending :
          (Resumed(i) /\ pending[i].op \in LedgerOpNames /\ pending[i].st = "err")
          => /\ <<products, notifications, expiryThreshold>>' = <<products, notifications, expiryThreshold>>
             /\ <<suppliers, invoices, users, companyInfo>>' = <<suppliers, invoices, users, companyInfo>>
             /\ db'.logs = db.logs]_vars

\* C12: no product, in memory or in the store, has a negative qtyWarehouse or
\* qtyOffice.
C12_StockNonNegative ==
  /\ \A k \in DOMAIN products : products[k].qtyWarehouse >= 0 /\ products[k].qtyOffice >= 0
  /\ \A k \in DOMAIN db.products : db.products[k].qty_warehouse >= 0 /\ db.products[k].qty_office >= 0

\* C13: when the add of product P (10, 0, reorder level 15) completes, the
\* list holds low-P; when the adjustStock(P, Warehouse, +10) called on it
\* completes, the in-memory P is (20, 0), low-P is not in the list, and
\* exactly one log entry was written, of kind ADD and mentioning 10.
C13_RestockScenario ==
  [][\A i \in DOMAIN pending :
       /\ (Resumed(i) /\ pending[i].op = "addProduct" /\ pending[i].st = "ok"
             /\ pending[i].arg.product.name = ScenarioProduct.name)
          => \E k \in DOMAIN products' :
               /\ products'[k].name = ScenarioProduct.name
               /\ <<"low", products'[k].id>> \in IdSet(notifications')
       /\ (Resumed(i) /\ pending[i].op = "adjustStock" /\ pending[i].st = "ok"
             /\ pending[i].arg.product.name = ScenarioProduct.name
             /\ pending[i].arg.product.qtyWarehouse = 10)
          => /\ \E k \in DOMAIN products' :
                  /\ products'[k].id = pending[i].arg.productId
                  /\ products'[k].qtyWarehouse = 20
                  /\ products'[k].qtyOffice = 0
             /\ <<"low", pending[i].arg.productId>> \notin IdSet(notifications')
             /\ Len(db'.logs) = Len(db.logs) + 1
             /\ db'.logs[Len(db'.logs)].action = "ADD"
             /\ Abs(db'.logs[Len(db'.logs)].details.n) = 10]_vars

\* a run of session resolution has ended and none is in progress
SessionEnded == session.st = "idle" /\ session.runs > 0

\* C14: once session resolution has ended for an identity with the
\* administrative address, currentUser has role MANAGER, whatever the lookup
\* of the profile gave; for another address whose profile was absent,
\* currentUser has role STAFF.
C14_AdminOverride ==
  SessionEnded
    => /\ session.email = AdminEmail => currentUser.role = "MANAGER"
       /\ (session.email # AdminEmail /\ session.lookup = "absent") => currentUser.role = "STAFF"

\* C15: once session resolution has ended with the lookup of the profile
\* failed or thrown and its creation failed or thrown, currentUser is the
\* identity's user: its id, with role MANAGER for the administrative address
\* and STAFF otherwise.
C15_SessionDegrades ==
  (SessionEnded /\ session.lookup \in {"absent", "failed", "throw"}
     /\ session.create \in {"error", "throw"})
    => /\ currentUser.id = session.id
       /\ currentUser.role = IF session.email = AdminEmail THEN "MANAGER" ELSE "STAFF"

\* C16: a run of session resolution issues at most one creation of the
\* profile and at most one update of its role.
C16_SessionWriteBudget ==
  session.inserts <= 1 /\ session.updates <= 1

\* a run for the administrative address ended after a failed creation and
\* the role update: one write of each kind
C16_Witness ==
  /\ SessionEnded
  /\ session.email = AdminEmail
  /\ session.create = "error"
  /\ session.inserts = 1
  /\ session.updates = 1

\* the row of table rows with the given id
RowOf(rows, id) == Find(rows, id)

\* C17: when the store has written an updateProduct whose product is the
\* mapping of the stored row, the row holds every value it held before; when
\* it has written an updateInvoice whose invoice is the mapping of a stored
\* row with an empty items list, the row has an empty items list and the
\* total it had before.
C17_MapperRoundTrip ==
  [][\A i \in DOMAIN pending :
       /\ (Answered(i) /\ pending[i].op = "updateProduct"
             /\ HasId(db.products, pending[i].arg.product.id)
             /\ pending[i].arg.product = formatProduct(RowOf(db.products, pending[i].arg.product.id)))
          => RowOf(db'.products, pending[i].arg.product.id)
               = RowOf(db.products, pending[i].arg.product.id)
       /\ (Answered(i) /\ pending[i].op = "updateInvoice"
             /\ HasId(db.invoices, pending[i].arg.invoice.id)
             /\ pending[i].arg.invoice = formatInvoice(RowOf(db.invoices, pending[i].arg.invoice.id))
             /\ RowOf(db.invoices, pending[i].arg.invoice.id).items = JsonArray(<<>>))
          => /\ RowOf(db'.invoices, pending[i].arg.invoice.id).items = JsonArray(<<>>)
             /\ RowOf(db'.invoices, pending[i].arg.invoice.id).total_amount
                  = RowOf(db.invoices, pending[i].arg.invoice.id).total_amount]_vars

\* C18: a transferStock whose from and to are the same location changes no
\* counter: the store's products are the same after its write, and the
\* in-memory products the same after its continuation.
C18_SameLocationTransfer ==
  [][\A i \in DOMAIN pending :
       (pending[i].op = "transferStock" /\ pending[i].arg.from = pending[i].arg.to)
       => /\ Answered(i) => db'.products = db.products
          /\ Resumed(i) => products' = products]_vars

\* the in-memory product with the named counter changed by delta
adjusted(p, location, delta) ==
  IF location = "Warehouse"
  THEN [p EXCEPT !.qtyWarehouse = p.qtyWarehouse + delta]
  ELSE [p EXCEPT !.qtyOffice = p.qtyOffice + delta]

\* the store row with the named column holding the value written
rowAdjusted(x, location, newQty) ==
  IF location = "Warehouse"
  THEN [x EXCEPT !.qty_warehouse = newQty]
  ELSE [x EXCEPT !.qty_office = newQty]

\* C19: a successful adjustStock adds delta to the counter of the named
\* location of the named product and to nothing else: the value written is the
\* product's counter plus delta, the store changes that one column of that one
\* row, and when the call completes the in-memory collection differs from the
\* one before only in that counter, which is delta higher; a log entry it
\* writes has kind ADD when delta > 0 and REMOVE otherwise. A call naming an
\* id that is not in the in-memory collection sends nothing and logs nothing.
C19_AdjustStockFrame ==
  [][/\ (Called("adjustStock") /\ last'.res = "sent")
          => LET a == pending'[Len(pending')].arg
             IN /\ HasId(products, a.productId)
                /\ a.payload.newQty = QtyAt(Find(products, a.productId), a.location) + a.delta
                /\ db' = db
     /\ (Called("adjustStock") /\ last'.res = "notfound")
          => pending' = pending /\ db' = db /\ products' = products
     /\ \A i \in DOMAIN pending :
          (pending[i].op = "adjustStock" /\ Answered(i))
          => LET a == pending[i].arg
             IN /\ Len(db'.products) = Len(db.products)
                /\ \A k \in DOMAIN db.products :
                     db'.products[k] = IF db.products[k].id = a.productId
                                       THEN rowAdjusted(db.products[k], a.location, a.payload.newQty)
                                       ELSE db.products[k]
     /\ \A i \in DOMAIN pending :
          (pending[i].op = "adjustStock" /\ pending[i].st = "ok" /\ Resumed(i))
          => LET a == pending[i].arg
             IN /\ Len(products') = Len(products)
                /\ \A k \in DOMAIN products :
                     products'[k] = IF products[k].id = a.productId
                                    THEN adjusted(products[k], a.location, a.delta)
                                    ELSE products[k]
                /\ \/ db'.logs = db.logs
                   \/ /\ Len(db'.logs) = Len(db.logs) + 1
                      /\ SubSeq(db'.logs, 1, Len(db.logs)) = db.logs
                      /\ db'.logs[Len(db'.logs)].action
                           = IF a.delta > 0 THEN "ADD" ELSE "REMOVE"]_vars

\* the collections a completing refetch failed to load
notLoaded(r) == IF r.st = "err" THEN Tables ELSE Tables \ r.res.got

\* C20: when a refetch completes without having loaded a collection (its
\* select returned an error or no data, or the whole fetch failed), the
\* in-memory copy of that collection is the same after as before.
C20_FetchFailureKeeps ==
  [][\A i \in DOMAIN pending :
       (pending[i].op = "fetchAllData" /\ Resumed(i))
       => /\ "products" \in notLoaded(pending[i]) => products' = products
          /\ "suppliers" \in notLoaded(pending[i]) => suppliers' = suppliers
          /\ "invoices" \in notLoaded(pending[i]) => invoices' = invoices
          /\ "profiles" \in notLoaded(pending[i]) => users' = users]_vars

\* the store (or the network) answers request i with an error in this step
Refused(i) ==
  /\ Len(pending') = Len(pending)
  /\ pending[i].st = "sent"
  /\ pending'[i].st = "err"

\* the number of entries of s that carry the id
CountId(s, id) == Cardinality({k \in DOMAIN s : s[k].id = id})

IsSortedByDateDesc(s) == \A j, k \in DOMAIN s : j < k => s[j].date >= s[k].date

\* what a Promise<boolean> operation of the hybrid provider resolves to
ReturnsTrue(how) == how \in {"ok", "local"}

\* the step completes an addInvoice of the hybrid provider whose insert failed
AddFellBack(i) ==
  /\ provider = "hybrid"
  /\ pending[i].op = "addInvoice"
  /\ pending[i].st = "err"
  /\ Resumed(i)

\* the invoice is kept under its local id, once in the blob and once in
\* memory, memory is sorted, the call returns true, the table is untouched
FellBackTo(i) ==
  LET id == pending[i].arg.localId
      kept == InvoiceWithId(pending[i].arg.invoiceData, id)
  IN /\ IsLocal(id)
     /\ CountId(localStorage', id) = 1 /\ CountId(invoices', id) = 1
     /\ Find(localStorage', id) = kept /\ Find(invoices', id) = kept
     /\ IsSortedByDateDesc(invoices')
     /\ ReturnsTrue(last'.res)
     /\ db'.invoices = db.invoices

\* C21 (as stated): when a manager's addInvoice fails remotely in the hybrid
\* provider, the invoice is stored under a 'local-' id once in the on-device
\* blob and once in the in-memory list, the list is sorted by date descending,
\* addInvoice returns true, and no remote row is created.
C21_LocalFallback ==
  [][\A i \in DOMAIN pending :
       /\ (pending[i].op = "addInvoice" /\ Refused(i)) => db'.invoices = db.invoices
       /\ AddFellBack(i) => FellBackTo(i)]_vars

\* C21 (amended): the same whenever the device accepts the write of the blob;
\* when it refuses it, neither the blob nor the in-memory list changes, no
\* remote row is created, and addInvoice returns false.
C21_LocalFallbackWhenStored ==
  [][\A i \in DOMAIN pending :
       /\ (pending[i].op = "addInvoice" /\ Refused(i)) => db'.invoices = db.invoices
       /\ AddFellBack(i)
            => \/ last'.res = "local" /\ FellBackTo(i)
               \/ /\ last'.res = "lost"
                  /\ ~ReturnsTrue(last'.res)
                  /\ localStorage' = localStorage /\ invoices' = invoices
                  /\ db'.invoices = db.invoices]_vars

\* an addInvoice has fallen back to the device, next to a newer invoice
C21_Witness ==
  /\ provider = "hybrid"
  /\ last = [ev |-> "done", op |-> "addInvoice", res |-> "local"]
  /\ \E k \in DOMAIN invoices : IsLocal(invoices[k].id) /\ k > 1
  /\ localStorage # <<>>

Without(s, id) == SelectSeq(s, LAMBDA x : x.id # id)

\* a request that has inserted the invoice id and whose continuation has not run
InsertPending(id) ==
  \E j \in DOMAIN pending :
    pending[j].op = "addInvoice" /\ pending[j].st = "ok" /\ pending[j].res.id = id

\* deleteInvoice of the hybrid provider, up to the end of the call: a local id
\* sends nothing and leaves the blob and the list; a remote id is sent first
\* and leaves the list when the answer has come, also when it is an error
DeleteInvoiceSteps ==
  /\ (Called("deleteInvoice") /\ last'.res = "local")
       => /\ pending' = pending /\ db' = db
          /\ \E k \in DOMAIN invoices :
               /\ IsLocal(invoices[k].id)
               /\ invoices' = Without(invoices, invoices[k].id)
               /\ localStorage' = Without(localStorage, invoices[k].id)
  /\ (Called("deleteInvoice") /\ last'.res = "sent")
       => /\ ~IsLocal(pending'[Len(pending')].arg.id)
          /\ invoices' = invoices /\ localStorage' = localStorage
  /\ \A i \in DOMAIN pending :
       (pending[i].op = "deleteInvoice" /\ Resumed(i))
       => /\ invoices' = Without(invoices, pending[i].arg.id)
          /\ ReturnsTrue(last'.res)

\* C22: in the hybrid provider a manager's deleteInvoice of a 'local-' id sends
\* nothing and removes the invoice from the blob and from memory; a remote id
\* is deleted remotely first and leaves memory afterwards, also when the
\* remote delete fails; and an invoice removed after a failed delete stays
\* absent: the refetch that completes next brings no invoice into memory
\* other than one a pending addInvoice has just inserted.
C22_DeleteInvoice ==
  [][provider = "hybrid"
     => /\ DeleteInvoiceSteps
        /\ \A i \in DOMAIN pending :
             (/\ last = [ev |-> "done", op |-> "deleteInvoice", res |-> "local"]
              /\ pending[i].op = "fetchAllData" /\ Resumed(i))
             => \A k \in DOMAIN invoices' :
                  HasId(invoices, invoices'[k].id) \/ InsertPending(invoices'[k].id)]_vars

\* the step completes a refetch of the hybrid provider
HybridRefetched(i) ==
  /\ provider = "hybrid"
  /\ pending[i].op = "fetchAllData"
  /\ pending[i].st = "ok"
  /\ Resumed(i)

\* the remote result of the refetch: what its invoices select returned
RemoteResult(i) ==
  IF "invoices" \in pending[i].res.got THEN pending[i].res.invoices ELSE <<>>

\* the last thing that ran is an updateInvoice that wrote the blob, and no
\* update of that invoice is in flight: the copy at the end of the blob is
\* the most recently written copy of its invoice
FreshestIsLocal ==
  /\ last.op = "updateInvoice" /\ last.res = "local"
  /\ localStorage # <<>>
  /\ \A j \in DOMAIN pending :
       pending[j].op = "updateInvoice"
       => pending[j].arg.invoice.id # localStorage[Len(localStorage)].id

\* each id once, and every id of the remote result and of the blob
MergedByIdentity(i) ==
  /\ \A k \in DOMAIN invoices' : CountId(invoices', invoices'[k].id) = 1
  /\ \A k \in DOMAIN RemoteResult(i) : HasId(invoices', RemoteResult(i)[k].id)
  /\ \A k \in DOMAIN localStorage : HasId(invoices', localStorage[k].id)

\* C23: after every refetch of the hybrid provider the in-memory invoice list
\* holds each id at most once and every id of the remote result and of the
\* blob; of an id present in both, it holds the most recently written copy.
C23_MergeOnLoad ==
  [][\A i \in DOMAIN pending :
       HybridRefetched(i)
       => /\ MergedByIdentity(i)
          /\ (FreshestIsLocal /\ HasId(RemoteResult(i), localStorage[Len(localStorage)].id))
               => Find(invoices', localStorage[Len(localStorage)].id)
                    = localStorage[Len(localStorage)]]_vars

PairOps == {"updateProduct", "adjustStock", "transferStock", "deleteProduct"}

\* the product a ledger request is on
OpTarget(r) ==
  CASE r.op = "updateProduct" -> r.arg.product.id
    [] r.op = "deleteProduct" -> r.arg.id
    [] OTHER -> r.arg.productId

WithIdOnly(s, id) == SelectSeq(s, LAMBDA x : x.id = id)

InitRowOf(id) == IF id = AcidRow.id THEN AcidRow ELSE BaseRow
InitEntryOf(id) == formatProduct(InitRowOf(id))

\* the rows of the product after request r has run alone on the initial store
AloneRows(r) ==
  LET x == OpTarget(r)
      a == r.arg
  IN CASE r.st = "err" -> <<InitRowOf(x)>>
       [] r.op = "updateProduct" -> <<RowWithId(dbProduct(a.product), x)>>
       [] r.op = "deleteProduct" -> <<>>
       [] r.op = "adjustStock" ->
            <<rowAdjusted(InitRowOf(x), a.location, QtyAt(InitEntryOf(x), a.location) + a.delta)>>
       [] OTHER ->
            <<[InitRowOf(x) EXCEPT
                 !.qty_warehouse = transferPayload(InitEntryOf(x), a.from, a.to, a.amount).qty_warehouse,
                 !.qty_office = transferPayload(InitEntryOf(x), a.from, a.to, a.amount).qty_office]>>

\* the in-memory entries of the product after request r has run alone
AloneEntries(r) ==
  LET x == OpTarget(r)
      a == r.arg
  IN CASE r.st = "err" -> <<InitEntryOf(x)>>
       [] r.op = "updateProduct" -> <<a.product>>
       [] r.op = "deleteProduct" -> <<>>
       [] provider # "remote" -> <<InitEntryOf(x)>>
       [] r.op = "adjustStock" -> <<adjusted(InitEntryOf(x), a.location, a.delta)>>
       [] OTHER ->
            <<[InitEntryOf(x) EXCEPT
                 !.qtyWarehouse = transferPayload(InitEntryOf(x), a.from, a.to, a.amount).qty_warehouse,
                 !.qtyOffice = transferPayload(InitEntryOf(x), a.from, a.to, a.amount).qty_office]>>

SameProductOps == {"updateProduct", "adjustStock", "transferStock"}

\* the row after the write of request r: the columns the write sets hold the
\* values it carries, the others are as they were
Overwritten(x, r) ==
  CASE r.op = "updateProduct" -> RowWithId(r.arg.row, x.id)
    [] r.op = "adjustStock" -> rowAdjusted(x, r.arg.location, r.arg.payload.newQty)
    [] OTHER -> [x EXCEPT !.qty_warehouse = r.arg.payload.qty_warehouse,
                          !.qty_office = r.arg.payload.qty_office]

\* the values request r carries are those of the in-memory product p
FromSnapshot(r, p) ==
  CASE r.op = "updateProduct" -> r.arg.row = dbProduct(r.arg.product)
    [] r.op = "adjustStock" ->
         r.arg.payload.newQty = QtyAt(p, r.arg.location) + r.arg.delta
    [] OTHER ->
         r.arg.payload = transferPayload(p, r.arg.from, r.arg.to, r.arg.amount)

\* C25: edits of one product that are in flight together are last-writer-wins:
\* each write carries values computed from the in-memory product at the time
\* of the call, and when the store accepts a write, whatever other write is
\* in flight or has been accepted, the columns it sets end with its values
\* and the other columns keep theirs: nothing is merged.
C25_LastWriterWins ==
  [][/\ \A op \in SameProductOps :
          (Called(op) /\ last'.res = "sent")
          => LET r == pending'[Len(pending')]
             IN /\ HasId(products, OpTarget(r))
                /\ FromSnapshot(r, Find(products, OpTarget(r)))
     /\ \A i \in DOMAIN pending :
          (pending[i].op \in SameProductOps /\ Answered(i))
          => /\ Len(db'.products) = Len(db.products)
             /\ \A k \in DOMAIN db.products :
                  db'.products[k] = IF db.products[k].id = OpTarget(pending[i])
                                    THEN Overwritten(db.products[k], pending[i])
                                    ELSE db.products[k]]_vars

\* two adjustStock calls issued on one counter from the same snapshot have both
\* been written: the counter holds old + a or old + b, not old + a + b
C25_Witness ==
  /\ Len(pending) = 2
  /\ pending[1].op = "adjustStock" /\ pending[2].op = "adjustStock"
  /\ pending[1].st = "ok" /\ pending[2].st = "ok"
  /\ pending[1].arg.productId = pending[2].arg.productId
  /\ pending[1].arg.location = pending[2].arg.location
  /\ pending[1].arg.product = pending[2].arg.product
  /\ pending[1].arg.delta # pending[2].arg.delta
  /\ \E k \in DOMAIN db.products :
       LET old == QtyAt(pending[1].arg.product, pending[1].arg.location)
           q == IF pending[1].arg.location = "Warehouse"
                THEN db.products[k].qty_warehouse ELSE db.products[k].qty_office
       IN /\ db.products[k].id = pending[1].arg.productId
          /\ q \in {old + pending[1].arg.delta, old + pending[2].arg.delta}
          /\ q # old + pending[1].arg.delta + pending[2].arg.delta

\* nothing is in flight: no request, no continuation, no undelivered event
Quiescent == pending = <<>> /\ rtEvents = 0

\* the in-memory products and the products table hold the same ids with the
\* same two counters
SameStock ==
  /\ \A k \in DOMAIN products :
       \E j \in DOMAIN db.products :
         /\ db.products[j].id = products[k].id
         /\ db.products[j].qty_warehouse = products[k].qtyWarehouse
         /\ db.products[j].qty_office = products[k].qtyOffice
  /\ \A j \in DOMAIN db.products : HasId(products, db.products[j].id)

\* C26: for a signed-in user, whenever no operation, event or refetch is
\* pending, the in-memory product collection equals the products table: same
\* ids, same qtyWarehouse and qtyOffice for each id.
C26_Converges == (currentUser # NoUser /\ Quiescent) => SameStock

\* C28: the in-memory product collection never holds two entries with the
\* same id.
C28_UniqueProductIds ==
  \A j, k \in DOMAIN products : products[j].id = products[k].id => j = k

\* C27: after a sign-out, and until an auth event carries a session again,
\* currentUser (and with it the cached user record, written and removed
\* together with it) is null and the product, supplier, invoice, user and
\* notification collections are empty, whatever completes meanwhile.
C27_SignOutIsFinal ==
  session.out
    => /\ currentUser = NoUser
       /\ products = <<>>
       /\ suppliers = <<>>
       /\ invoices = <<>>
       /\ users = <<>>
       /\ notifications = <<>>

\* no run of session resolution is in flight, and one has taken place
NoneInFlight == session.st = "idle" /\ session.runs > 0

\* C29: a run of session resolution starts only when none is in flight, and
\* once none is in flight and the last auth event carried a session,
\* currentUser.id is the user id of that event.
C29_LatestIdentity ==
  (NoneInFlight /\ ~session.out /\ session.latest # NoUser.id)
    => currentUser.id = session.latest

\* C30: after the provider has mounted, loading eventually is false and
\* stays false (nothing in the mount sets it again), whatever getSession, the
\* profile lookup and the data fetches answer.
C30_LoadingClears == <>[](session.loading = FALSE)

====
